---- MODULE Spec2Model ----
(***************************************************************************)
(* goanna: the background worker (apps/api/internal/worker) that checks    *)
(* monitors on a cron schedule, together with the rows of the database it  *)
(* reads and writes and the API handlers that force a run or update a     *)
(* monitor; and one call of the check executor, step by step.              *)
(*                                                                         *)
(* Time is a coarse integer clock.  A tick takes no model time: the clock   *)
(* advances only between ticks or while the process is down.  Every        *)
(* database operation of the worker may fail, and the process may be       *)
(* killed at any step and started again.  The database the process starts  *)
(* on may be fresh or hold what one earlier run left (Init).               *)
(***************************************************************************)
EXTENDS Integers, Sequences, FiniteSets, TLC

\* ------------------------------------------------------------------ bounds
MaxTime     == 1          \* the clock runs 0..MaxTime
MaxChecks   == 1          \* check results inserted after Init (caps ids and counters)
MaxKeep     == 1          \* largest checks_history_limit a stored configuration holds
MaxBody     == 2          \* largest maxResponseBodyBytes a worker is configured with

\* ------------------------------------------------------- program constants
maxRetries  == 2          \* worker.go:30
defaultChecksHistoryKeep == 200    \* server.go:35
defaultChecksHistoryLimit == 200   \* worker.go:26
Minute      == 1          \* time.Minute in clock units (worker.go:246)

Monitors == {1, 2}        \* ids of table monitors
Channels == {1}           \* table notification_channels: kind is unique, one kind
Nil      == -1            \* a null time (next_run_at IS NULL, startupCutoff == nil)
BadCron  == 0             \* a cron expression cron.ParseStandard rejects
Crons    == {BadCron, 1}  \* else the period of the schedule: "every p time units"
NoSel    == "none"        \* result.selection == nil or !selection.Exists
Values   == {"a", "b"}    \* normalized values of an existing text selection
ExpectedTypes == {"json", "text"}   \* monitors.expected_type; html is handled as text

VARIABLES
  clock,      \* wall-clock time (time.Now)
  monitors,   \* table monitors: id -> [exists, enabled, cron, notify, expectedType,
              \*   selector] (notify: the channel list names telegram; selector: a
              \*   non-blank selector is set)
  runtime,    \* table monitor_runtimes: monitor id -> row (exists = FALSE: no row)
  checks,     \* table check_results: a set of rows
  nextId,     \* the next auto-increment id of check_results
  events,     \* table notification_events: a set of rows
  sends,      \* messages handed to the notification transport
  channels,   \* table notification_channels: id -> enabled
  config,     \* table system_configs, the row of key "global"
  w,          \* the worker goroutine: its position and its local variables
  api         \* the API request in flight: its handler, its target, its position
              \*   and the status code it has answered with

vars == <<clock, monitors, runtime, checks, nextId, events, sends, channels, config, w, api>>

\* ------------------------------------------------------------- row shapes
Statuses == {"pending", "ok", "error", "retrying", "disabled"}

\* ent/schema/monitorruntime.go: the defaults of a freshly created row.
NoRuntime ==
  [exists |-> FALSE, status |-> "pending", nextRunAt |-> Nil,
   checkCount |-> 0, successCount |-> 0, errorCount |-> 0, retryCount |-> 0,
   consecutiveSuccesses |-> 0, consecutiveErrors |-> 0, lastErrorMessage |-> ""]

NoConfig == [exists |-> FALSE, checksHistoryLimit |-> 0]

\* No API request is in flight.
NoRequest == [op |-> "none", m |-> 0, pc |-> "idle", status |-> 0, at |-> 0]

NoResult == [success |-> FALSE, status |-> "error", errorMessage |-> "", sel |-> NoSel,
             checkedAt |-> Nil]

NoDiff == [kind |-> "none", changed |-> FALSE]

\* ---------------------------------------------------------- pure functions

\* worker.go nextRunFromCron: the first activation strictly after now, or an
\* error when the expression does not parse.
nextRunFromCron(cron, now) ==
  IF cron = BadCron
    THEN [err |-> TRUE, at |-> Nil]
    ELSE [err |-> FALSE, at |-> ((now \div cron) + 1) * cron]

shouldTriggerStartupCatchUp_Strict(nextRunAt, startupAt) ==
  IF nextRunAt = Nil THEN FALSE ELSE nextRunAt < startupAt

\* worker.go shouldTriggerStartupCatchUp
shouldTriggerStartupCatchUp(nextRunAt, startupAt) ==
  IF nextRunAt = Nil THEN FALSE ELSE ~(nextRunAt > startupAt)

\* A partial UPDATE of a runtime row (ent UpdateOneID(...).Set...().Save): the
\* columns it names change, the others keep the value the database holds.
Keep == "keep"
Patch(status, nextOp, next, msgOp, msg) ==
  [status |-> status, nextOp |-> nextOp, next |-> next, msgOp |-> msgOp, msg |-> msg]

ApplyPatch_NoMessage(row, p) ==
  [row EXCEPT
     !.status = IF p.status = Keep THEN @ ELSE p.status,
     !.nextRunAt = CASE p.nextOp = "set" -> p.next
                     [] p.nextOp = "clear" -> Nil
                     [] OTHER -> @]

ApplyPatch(row, p) ==
  [row EXCEPT
     !.status = IF p.status = Keep THEN @ ELSE p.status,
     !.nextRunAt = CASE p.nextOp = "set" -> p.next
                     [] p.nextOp = "clear" -> Nil
                     [] OTHER -> @,
     !.lastErrorMessage = IF p.msgOp = "set" THEN p.msg ELSE @]

ensureRuntime_Plan_ClearOnly(mon, rt, now) ==
  LET nr == nextRunFromCron(mon.cron, now) IN
  IF ~rt.exists THEN
    [op |-> "create",
     patch |-> Patch(IF mon.enabled THEN "pending" ELSE "disabled",
                     IF mon.enabled /\ ~nr.err THEN "set" ELSE "keep", nr.at, "keep", "")]
  ELSE IF ~mon.enabled THEN
    IF rt.status = "pending" /\ rt.nextRunAt # Nil
      THEN [op |-> "none", patch |-> Patch(Keep, "keep", Nil, "keep", "")]
    ELSE IF rt.status # "disabled"
      THEN [op |-> "update", patch |-> Patch(Keep, "clear", Nil, "keep", "")]
      ELSE [op |-> "none", patch |-> Patch(Keep, "keep", Nil, "keep", "")]
  ELSE IF rt.status = "disabled" THEN
    [op |-> "update",
     patch |-> Patch("pending",
                     IF rt.nextRunAt = Nil /\ ~nr.err THEN "set" ELSE "keep", nr.at, "keep", "")]
  ELSE IF rt.nextRunAt = Nil THEN
    IF nr.err
      THEN [op |-> "update", patch |-> Patch("error", "keep", Nil, "set", "cron")]
      ELSE [op |-> "update", patch |-> Patch(Keep, "set", nr.at, "keep", "")]
  ELSE [op |-> "none", patch |-> Patch(Keep, "keep", Nil, "keep", "")]

ensureRuntime_Plan_StayDisabled(mon, rt, now) ==
  LET nr == nextRunFromCron(mon.cron, now) IN
  IF ~rt.exists THEN
    [op |-> "create",
     patch |-> Patch(IF mon.enabled THEN "pending" ELSE "disabled",
                     IF mon.enabled /\ ~nr.err THEN "set" ELSE "keep", nr.at, "keep", "")]
  ELSE IF ~mon.enabled THEN
    IF rt.status = "pending" /\ rt.nextRunAt # Nil
      THEN [op |-> "none", patch |-> Patch(Keep, "keep", Nil, "keep", "")]
    ELSE IF rt.status # "disabled"
      THEN [op |-> "update", patch |-> Patch("disabled", "clear", Nil, "keep", "")]
      ELSE [op |-> "none", patch |-> Patch(Keep, "keep", Nil, "keep", "")]
  ELSE IF rt.nextRunAt = Nil THEN
    IF nr.err
      THEN [op |-> "update", patch |-> Patch("error", "keep", Nil, "set", "cron")]
      ELSE [op |-> "update", patch |-> Patch(Keep, "set", nr.at, "keep", "")]
  ELSE [op |-> "none", patch |-> Patch(Keep, "keep", Nil, "keep", "")]

ensureRuntime_Plan_DropForced(mon, rt, now) ==
  LET nr == nextRunFromCron(mon.cron, now) IN
  IF ~rt.exists THEN
    [op |-> "create",
     patch |-> Patch(IF mon.enabled THEN "pending" ELSE "disabled",
                     IF mon.enabled /\ ~nr.err THEN "set" ELSE "keep", nr.at, "keep", "")]
  ELSE IF ~mon.enabled THEN
    IF rt.status # "disabled"
      THEN [op |-> "update", patch |-> Patch("disabled", "clear", Nil, "keep", "")]
      ELSE [op |-> "none", patch |-> Patch(Keep, "keep", Nil, "keep", "")]
  ELSE IF rt.status = "disabled" THEN
    [op |-> "update",
     patch |-> Patch("pending",
                     IF rt.nextRunAt = Nil /\ ~nr.err THEN "set" ELSE "keep", nr.at, "keep", "")]
  ELSE IF rt.nextRunAt = Nil THEN
    IF nr.err
      THEN [op |-> "update", patch |-> Patch("error", "keep", Nil, "set", "cron")]
      ELSE [op |-> "update", patch |-> Patch(Keep, "set", nr.at, "keep", "")]
  ELSE [op |-> "none", patch |-> Patch(Keep, "keep", Nil, "keep", "")]

\* worker.go ensureRuntime, lines 136-217: what it writes, decided from the row
\* and the runtime loaded at the start of the tick.  op = "none": it returns the
\* loaded runtime unchanged.
ensureRuntime_Plan(mon, rt, now) ==
  LET nr == nextRunFromCron(mon.cron, now) IN
  IF ~rt.exists THEN
    [op |-> "create",
     patch |-> Patch(IF mon.enabled THEN "pending" ELSE "disabled",
                     IF mon.enabled /\ ~nr.err THEN "set" ELSE "keep", nr.at, "keep", "")]
  ELSE IF ~mon.enabled THEN
    IF rt.status = "pending" /\ rt.nextRunAt # Nil
      THEN [op |-> "none", patch |-> Patch(Keep, "keep", Nil, "keep", "")]
    ELSE IF rt.status # "disabled"
      THEN [op |-> "update", patch |-> Patch("disabled", "clear", Nil, "keep", "")]
      ELSE [op |-> "none", patch |-> Patch(Keep, "keep", Nil, "keep", "")]
  ELSE IF rt.status = "disabled" THEN
    [op |-> "update",
     patch |-> Patch("pending",
                     IF rt.nextRunAt = Nil /\ ~nr.err THEN "set" ELSE "keep", nr.at, "keep", "")]
  ELSE IF rt.nextRunAt = Nil THEN
    IF nr.err
      THEN [op |-> "update", patch |-> Patch("error", "keep", Nil, "set", "cron")]
      ELSE [op |-> "update", patch |-> Patch(Keep, "set", nr.at, "keep", "")]
  ELSE [op |-> "none", patch |-> Patch(Keep, "keep", Nil, "keep", "")]

isDue_Strict(mon, rt, now) ==
  /\ rt.nextRunAt # Nil
  /\ rt.nextRunAt < now
  /\ (~mon.enabled => rt.status = "pending")

\* worker.go tick, lines 113-124: does the tick run the monitor, given the
\* runtime ensureRuntime returned?
isDue(mon, rt, now) ==
  /\ rt.nextRunAt # Nil
  /\ ~(now < rt.nextRunAt)
  /\ (~mon.enabled => rt.status = "pending")


\* worker.go executeOnce + evaluateResponse, lines 336-489, by outcome: what one
\* HTTP attempt can return.  A failed attempt may still carry an existing
\* selection (a JSON assertion that failed, line 468).
Outcomes(at, vals) ==
  {[success |-> TRUE, status |-> "ok", errorMessage |-> "", sel |-> s, checkedAt |-> at]
     : s \in vals \cup {NoSel}}
  \cup {[success |-> FALSE, status |-> "error", errorMessage |-> "http", sel |-> NoSel,
         checkedAt |-> at]}
  \cup {[success |-> FALSE, status |-> "error", errorMessage |-> "assert", sel |-> s,
         checkedAt |-> at] : s \in vals}

\* worker.go evaluateResponse, lines 472-485, by outcome: expected type html or
\* text.  A non-blank selector fails every 2xx response; no selection is returned.
TextOutcomes(at, mon) ==
  {[success |-> FALSE, status |-> "error", errorMessage |-> "http", sel |-> NoSel,
    checkedAt |-> at]}
  \cup (IF mon.selector
          THEN {[success |-> FALSE, status |-> "error", errorMessage |-> "selector",
                 sel |-> NoSel, checkedAt |-> at]}
          ELSE {[success |-> TRUE, status |-> "ok", errorMessage |-> "", sel |-> NoSel,
                 checkedAt |-> at],
                [success |-> FALSE, status |-> "error", errorMessage |-> "assert",
                 sel |-> NoSel, checkedAt |-> at]})

\* worker.go evaluateResponse, line 445: switch expectedType.
OutcomesOf(mon, at, vals) ==
  IF mon.expectedType = "json" THEN Outcomes(at, vals) ELSE TextOutcomes(at, mon)

attemptIsFinal_OneMore(result, attempt) ==
  result.success \/ attempt = maxRetries + 1

attemptIsFinal_OneShort(result, attempt) ==
  result.success \/ attempt = maxRetries - 1

\* worker.go executeWithRetry, lines 308-314: is the result of this attempt final?
attemptIsFinal(result, attempt) ==
  result.success \/ attempt = maxRetries

\* Rows of check_results of a monitor; later(r1, r2): r1 sorts before r2 under
\* Order(Desc(checked_at), Desc(id)).
checksOf(m) == {r \in checks : r.monitor = m}
later(r1, r2) ==
  \/ r1.checkedAt > r2.checkedAt
  \/ r1.checkedAt = r2.checkedAt /\ r1.id > r2.id

\* worker.go loadPreviousSelection, lines 529-554: the selection of the most
\* recent row that stores one, or NoSel.
loadPreviousSelection(m) ==
  LET withSel == {r \in checksOf(m) : r.sel # NoSel} IN
  IF withSel = {} THEN NoSel
  ELSE (CHOOSE r \in withSel : \A o \in withSel \ {r} : later(r, o)).sel

\* notificationevent.go buildSelectionDiff, lines 70-132, on text selections
\* (buildTextDiff, lines 165-181): no diff without a current selection, "initial"
\* without a previous one, else changed iff the values differ.
buildSelectionDiff(previous, current) ==
  IF current = NoSel THEN NoDiff
  ELSE IF previous = NoSel THEN [kind |-> "initial", changed |-> FALSE]
  ELSE [kind |-> "text", changed |-> previous # current]

\* worker.go insertCheckResult, lines 491-527: the row it creates (of its
\* columns: the check time, the selection and the diff).
checkRow(id, m, result, diff) ==
  [id |-> id, monitor |-> m, checkedAt |-> result.checkedAt,
   sel |-> result.sel, diffKind |-> diff.kind, diffChanged |-> diff.changed]

runtimeAfterRun_KeepErrors(row, result, retriesUsed, disableAfterRun, cron, now) ==
  LET nr == nextRunFromCron(cron, now) IN
  [row EXCEPT
     !.checkCount = @ + 1,
     !.retryCount = @ + retriesUsed,
     !.status = IF disableAfterRun THEN "disabled" ELSE result.status,
     !.nextRunAt = IF disableAfterRun THEN Nil
                   ELSE IF nr.err THEN now + Minute ELSE nr.at,
     !.successCount = IF result.success THEN @ + 1 ELSE @,
     !.errorCount = IF result.success THEN @ ELSE @ + 1,
     !.consecutiveSuccesses = IF result.success THEN @ + 1 ELSE 0,
     !.consecutiveErrors = IF result.success THEN @ ELSE @ + 1,
     !.lastErrorMessage = IF result.success THEN ""
                          ELSE IF result.errorMessage # "" THEN result.errorMessage ELSE @]

runtimeAfterRun_NoFallback(row, result, retriesUsed, disableAfterRun, cron, now) ==
  LET nr == nextRunFromCron(cron, now) IN
  [row EXCEPT
     !.checkCount = @ + 1,
     !.retryCount = @ + retriesUsed,
     !.status = IF disableAfterRun THEN "disabled" ELSE result.status,
     !.nextRunAt = IF disableAfterRun THEN Nil ELSE nr.at,
     !.successCount = IF result.success THEN @ + 1 ELSE @,
     !.errorCount = IF result.success THEN @ ELSE @ + 1,
     !.consecutiveSuccesses = IF result.success THEN @ + 1 ELSE 0,
     !.consecutiveErrors = IF result.success THEN 0 ELSE @ + 1,
     !.lastErrorMessage = IF result.success THEN ""
                          ELSE IF result.errorMessage # "" THEN result.errorMessage ELSE @]

runtimeAfterRun_KeepStreak(row, result, retriesUsed, disableAfterRun, cron, now) ==
  LET nr == nextRunFromCron(cron, now) IN
  [row EXCEPT
     !.checkCount = @ + 1,
     !.retryCount = @ + retriesUsed,
     !.status = IF disableAfterRun THEN "disabled" ELSE result.status,
     !.nextRunAt = IF disableAfterRun THEN Nil
                   ELSE IF nr.err THEN now + Minute ELSE nr.at,
     !.successCount = IF result.success THEN @ + 1 ELSE @,
     !.errorCount = IF result.success THEN @ ELSE @ + 1,
     !.consecutiveSuccesses = IF result.success THEN @ + 1 ELSE @,
     !.consecutiveErrors = IF result.success THEN 0 ELSE @ + 1,
     !.lastErrorMessage = IF result.success THEN ""
                          ELSE IF result.errorMessage # "" THEN result.errorMessage ELSE @]

\* worker.go runMonitor, lines 234-282: the runtime row after the update, from
\* the row the database holds (counters are Add..., relative to it).
runtimeAfterRun(row, result, retriesUsed, disableAfterRun, cron, now) ==
  LET nr == nextRunFromCron(cron, now) IN
  [row EXCEPT
     !.checkCount = @ + 1,
     !.retryCount = @ + retriesUsed,
     !.status = IF disableAfterRun THEN "disabled" ELSE result.status,
     !.nextRunAt = IF disableAfterRun THEN Nil
                   ELSE IF nr.err THEN now + Minute ELSE nr.at,
     !.successCount = IF result.success THEN @ + 1 ELSE @,
     !.errorCount = IF result.success THEN @ ELSE @ + 1,
     !.consecutiveSuccesses = IF result.success THEN @ + 1 ELSE 0,
     !.consecutiveErrors = IF result.success THEN 0 ELSE @ + 1,
     !.lastErrorMessage = IF result.success THEN ""
                          ELSE IF result.errorMessage # "" THEN result.errorMessage ELSE @]

staleRows_Oldest(m, keep) ==
  {r \in checksOf(m) : Cardinality({o \in checksOf(m) : later(r, o)}) >= keep}

\* worker.go pruneCheckHistory, lines 561-565: the rows past Offset(keep) in the
\* order (checked_at desc, id desc).
staleRows(m, keep) ==
  {r \in checksOf(m) : Cardinality({o \in checksOf(m) : later(o, r)}) >= keep}

enabledChannelsForMonitor_IgnoreList(mon) == {c \in Channels : channels[c]}

\* notify.go enabledChannelsForMonitor, lines 59-89: the enabled channels whose
\* kind the monitor lists (one kind exists, telegram; mon.notify: it is listed).
enabledChannelsForMonitor(mon) ==
  IF ~mon.notify THEN {} ELSE {c \in Channels : channels[c]}

\* A set of channel ids as the sequence the query returns (by id).
RECURSIVE SeqOf(_)
SeqOf(S) ==
  IF S = {} THEN <<>>
  ELSE LET c == CHOOSE x \in S : \A y \in S : x <= y IN <<c>> \o SeqOf(S \ {c})


\* ------------------------------------------------------------ worker state

MonitorRows == [exists : BOOLEAN, enabled : BOOLEAN, cron : Crons, notify : BOOLEAN,
                expectedType : ExpectedTypes, selector : BOOLEAN]

NoMonitor == [exists |-> FALSE, enabled |-> FALSE, cron |-> BadCron, notify |-> FALSE,
              expectedType |-> "json", selector |-> FALSE]

foreignKeyHolds_Off(m) == TRUE

\* checkresult.go, lines 52-60, monitorruntime.go, lines 61-69, and
\* notificationevent.go, lines 29-41: the edge to the monitor is required, and
\* the database is opened with foreign keys on (part_009, line 28), so a row
\* that refers to the monitor m is inserted only while m exists.
foreignKeyHolds(m) == monitors[m].exists

\* Of a loaded runtime the worker reads its existence (and id), status and
\* next_run_at only, so a loaded or returned row is kept as these columns.
Loaded(row) == [exists |-> row.exists, status |-> row.status, nextRunAt |-> row.nextRunAt]

NoRows == [m \in Monitors |-> [mon |-> NoMonitor, rt |-> Loaded(NoRuntime)]]

\* notify.go notifyMonitorDiff, line 34: var notifyErr error (nil); an error is
\* kept by the name of the statement that returned it.
NoErr == ""

\* The worker's locals outside a tick (pc "stopped": no process; "idle": waiting
\* for the ticker).  checkId, the id of the row the run inserted, is a history
\* variable; catchUp: the tick logged "startup catch-up trigger" for the row.
Locals(pc) ==
  [pc |-> pc, now |-> Nil, startup |-> Nil, rows |-> NoRows, idx |-> 0,
   rt |-> Loaded(NoRuntime), disableAfterRun |-> FALSE, attempt |-> 0, retriesUsed |-> 0,
   result |-> NoResult, diff |-> NoDiff, chans |-> <<>>, notifyErr |-> NoErr,
   checkId |-> 0, catchUp |-> FALSE]

\* The locals of one iteration of the loop of tick, before the row is processed.
RowLocals(wl, idx) ==
  [Locals("row") EXCEPT !.now = wl.now, !.startup = wl.startup, !.rows = wl.rows,
                        !.idx = idx]

\* The loaded rows after position idx, in the order of the query (by id).
RowsAfter(rows, idx) == {m \in Monitors : m > idx /\ rows[m].mon.exists}

\* `continue` / the end of the loop body: the next loaded row, or the end of the
\* tick.
Continue(wl) ==
  LET rest == RowsAfter(wl.rows, wl.idx) IN
  IF rest = {} THEN Locals("idle")
  ELSE RowLocals(wl, CHOOSE m \in rest : \A o \in rest : m <= o)

ErrorReturn_Abort(wl) == Locals("idle")

\* worker.go tick, lines 108-111 and 130-132: an error of ensureRuntime or
\* runMonitor is logged and the loop goes on.
ErrorReturn(wl) == Continue(wl)

NotifyReturn_Escalate(wl, err) ==
  IF err # NoErr THEN ErrorReturn(wl)
  ELSE [wl EXCEPT !.pc = "prune", !.chans = <<>>, !.notifyErr = err]

\* worker.go runMonitor, lines 288-294: notifyMonitorDiff has returned; its
\* error is logged and the run goes on to the retention step.
NotifyReturn(wl, err) == [wl EXCEPT !.pc = "prune", !.chans = <<>>, !.notifyErr = err]

\* ------------------------------------------------------------------- Init

\* What an earlier run of a monitor left at time 0, if any: a successful check
\* that captured "a", or a failed one (maxRetries retries, no selection).
Histories == {"fresh", "ok", "err"}

WarmResult(h) ==
  IF h = "ok"
    THEN [success |-> TRUE, status |-> "ok", errorMessage |-> "", sel |-> "a", checkedAt |-> 0]
    ELSE [success |-> FALSE, status |-> "error", errorMessage |-> "http", sel |-> NoSel,
          checkedAt |-> 0]

\* "off": the runtime of a target that was disabled before any check (status
\* disabled, no next_run_at), whatever the target is now.
WarmRuntime(mon, h) ==
  IF h = "fresh" THEN NoRuntime
  ELSE IF h = "off" THEN [NoRuntime EXCEPT !.exists = TRUE, !.status = "disabled"]
  ELSE runtimeAfterRun([NoRuntime EXCEPT !.exists = TRUE], WarmResult(h),
                       IF h = "ok" THEN 0 ELSE maxRetries, ~mon.enabled, mon.cron, 0)

WarmChecks(m, h) ==
  IF h \in {"fresh", "off"} THEN {}
  ELSE {checkRow(m, m, WarmResult(h), buildSelectionDiff(NoSel, WarmResult(h).sel))}

\* The ids of the rows of Init are the monitor ids; later rows follow.
FirstId == Cardinality(Monitors) + 1

\* Monitors that expect JSON and select a value of it.  A disabled monitor with
\* an unparseable cron expression behaves as one with a parseable one (its cron
\* is never read), so Init leaves it out.
Profiles ==
  {p \in MonitorRows : /\ p.exists /\ (~p.enabled => p.cron # BadCron)
                       /\ p.expectedType = "json" /\ p.selector}

\* The channel table: the channel is enabled, or it is disabled (or missing).
ChannelEnabled  == [c \in Channels |-> TRUE]
ChannelDisabled == [c \in Channels |-> FALSE]

\* The configuration rows a database may hold: none, or a limit.
Configs == {NoConfig} \cup
           {[exists |-> TRUE, checksHistoryLimit |-> k] : k \in 1..MaxKeep}

\* The database the process starts on, with the monitors ms, the channels cs,
\* what an earlier run left per monitor (one of hs) and a configuration row
\* (one of cfgs).
InitDatabase(ms, cs, hs, cfgs) ==
  /\ clock = 0
  /\ api = NoRequest
  /\ monitors = ms
  /\ \E h \in hs :
       /\ \A m \in Monitors : ~ms[m].exists => h[m] = "fresh"
       /\ runtime = [m \in Monitors |-> WarmRuntime(ms[m], h[m])]
       /\ checks = UNION {WarmChecks(m, h[m]) : m \in Monitors}
  /\ nextId = FirstId
  /\ events = {}
  /\ sends = {}
  /\ channels = cs
  /\ config \in cfgs
  /\ w = Locals("stopped")

OnlyMonitor(p) == [m \in Monitors |-> IF m = 1 THEN p ELSE NoMonitor]

\* One monitor of any profile and history.
Init ==
  \E p \in Profiles :
    \E cs \in IF p.notify THEN {ChannelEnabled, ChannelDisabled} ELSE {ChannelEnabled} :
      InitDatabase(OnlyMonitor(p), cs, [Monitors -> Histories], Configs)

\* Two monitors with the same history: the first enabled and scheduled, the
\* second enabled or disabled.
InitTwo ==
  \E p \in Profiles :
    /\ p.notify /\ p.cron # BadCron
    /\ InitDatabase([m \in Monitors |->
                       IF m = 1 THEN [exists |-> TRUE, enabled |-> TRUE, cron |-> 1,
                                      notify |-> FALSE, expectedType |-> "json",
                                      selector |-> TRUE]
                       ELSE p],
                    ChannelEnabled, {[m \in Monitors |-> h] : h \in {"fresh", "ok"}},
                    {NoConfig})

\* One enabled monitor, its cron expression parseable or not; one enabled
\* channel, no configuration row yet.
InitApi ==
  \E p \in Profiles :
    /\ p.enabled /\ p.notify
    /\ InitDatabase(OnlyMonitor(p), ChannelEnabled, [Monitors -> Histories], {NoConfig})

\* One monitor that lists the channel, its cron expression parseable or not (a
\* row written past the validation of the API), with what an earlier run left
\* or with the runtime of an earlier disabled period; one enabled channel, no
\* configuration row yet.
InitCron ==
  \E p \in Profiles :
    /\ p.notify
    /\ InitDatabase(OnlyMonitor(p), ChannelEnabled, [Monitors -> Histories \cup {"off"}],
                    {NoConfig})

\* One monitor with a parseable cron expression, of any expected type, with or
\* without a selector (the API accepts a selector with every expected type);
\* one enabled channel, no configuration row yet.
InitExpect ==
  \E p \in MonitorRows :
    /\ p.exists /\ p.notify /\ p.cron # BadCron
    /\ InitDatabase(OnlyMonitor(p), ChannelEnabled, [Monitors -> Histories], {NoConfig})

dbVars == <<monitors, runtime, checks, nextId, events, sends, channels, config>>

\* --------------------------------------------------------------- the clock

\* Time passes while the worker waits or is down.
Advance ==
  /\ w.pc \in {"stopped", "idle"}
  /\ clock < MaxTime
  /\ clock' = clock + 1
  /\ UNCHANGED <<dbVars, w, api>>

\* ------------------------------------------------------------ Worker.Start

\* worker.go Start, lines 74-79: startupAt := now, then the first tick at once.
Start ==
  /\ w.pc = "stopped"
  /\ w' = [Locals("config") EXCEPT !.startup = clock]
  /\ UNCHANGED <<clock, dbVars, api>>

\* worker.go Start, lines 85-86: the ticker fires, tick(ctx, nil).
TickerFire ==
  /\ w.pc = "idle"
  /\ w' = Locals("config")
  /\ UNCHANGED <<clock, dbVars, api>>

\* The process is killed; nothing of the goroutine survives.
Crash ==
  /\ w.pc # "stopped"
  /\ w' = Locals("stopped")
  /\ UNCHANGED <<clock, dbVars, api>>

\* ------------------------------------------------------------- Worker.tick

\* worker.go tick, lines 92-96, and ensureSystemConfig, lines 590-605: the
\* global configuration row is read, and created with the default limit when
\* missing; on an error the tick returns.
EnsureSystemConfig ==
  /\ w.pc = "config"
  /\ \/ /\ config' = IF config.exists THEN config
                     ELSE [exists |-> TRUE, checksHistoryLimit |-> defaultChecksHistoryLimit]
        /\ w' = [w EXCEPT !.pc = "load"]
     \/ /\ w' = Locals("idle")
        /\ UNCHANGED config
  /\ UNCHANGED <<clock, monitors, runtime, checks, nextId, events, sends, channels, api>>

\* worker.go tick, lines 99-105: all monitors with their runtimes are loaded
\* (on an error the tick returns), then now := time.Now().
LoadMonitors ==
  /\ w.pc = "load"
  /\ \/ LET rows == [m \in Monitors |->
                         IF monitors[m].exists
                           THEN [mon |-> monitors[m], rt |-> Loaded(runtime[m])]
                           ELSE NoRows[m]]
        IN w' = Continue([w EXCEPT !.now = clock, !.rows = rows, !.idx = 0])
     \/ w' = Locals("idle")
  /\ UNCHANGED <<clock, dbVars, api>>

\* worker.go tick, lines 106-128: one iteration up to the call of runMonitor:
\* ensureRuntime (its write may fail: continue), then the due test.
ProcessRow ==
  /\ w.pc = "row"
  /\ LET m    == w.idx
         mon  == w.rows[m].mon
         plan == ensureRuntime_Plan(mon, w.rows[m].rt, w.now)
         \* the row as the statement leaves it in the database
         written == IF plan.op = "create"
                      THEN ApplyPatch([NoRuntime EXCEPT !.exists = TRUE], plan.patch)
                      ELSE ApplyPatch(runtime[m], plan.patch)
         \* create fails on a second runtime of the monitor (the edge is unique)
         \* and on a monitor that is gone, update fails when the row is gone
         canWrite == IF plan.op = "create" THEN ~runtime[m].exists /\ foreignKeyHolds(m)
                     ELSE runtime[m].exists
         go(rt) == IF isDue(mon, rt, w.now)
                     THEN [w EXCEPT !.pc = "attempt", !.rt = rt,
                                    !.disableAfterRun = ~mon.enabled,
                                    !.catchUp = /\ w.startup # Nil
                                                /\ shouldTriggerStartupCatchUp(rt.nextRunAt,
                                                                               w.startup)]
                     ELSE Continue(w)
     IN
     \/ /\ plan.op = "none"
        /\ w' = go(w.rows[m].rt)
        /\ UNCHANGED runtime
     \/ /\ plan.op # "none"
        /\ canWrite
        /\ runtime' = [runtime EXCEPT ![m] = written]
        /\ w' = go(Loaded(written))
     \/ /\ plan.op # "none"
        /\ w' = ErrorReturn(w)
        /\ UNCHANGED runtime
  /\ UNCHANGED <<clock, monitors, checks, nextId, events, sends, channels, config, api>>


\* ------------------------------------------------- Worker.executeWithRetry

\* The values the endpoint of a monitor may yield.  Values differ by name only,
\* so while no selection of the monitor is stored the value it yields is "a".
EndpointValues(m) ==
  IF loadPreviousSelection(m) = NoSel THEN {"a"} ELSE Values

retryingRow_Pending(row) == [row EXCEPT !.status = "pending"]

retryingRow_ClearNext(row) == [row EXCEPT !.status = "retrying", !.nextRunAt = Nil]

\* worker.go executeWithRetry, lines 317-319: the UPDATE between two attempts.
retryingRow(row) == [row EXCEPT !.status = "retrying"]

\* worker.go executeWithRetry, lines 306-319: one attempt.  A final result goes
\* on to runMonitor; else the retry is counted and status "retrying" is written
\* (the error of that write is dropped), and the backoff starts.
Attempt ==
  /\ w.pc = "attempt"
  /\ nextId < FirstId + MaxChecks
  /\ \E r \in OutcomesOf(w.rows[w.idx].mon, clock, EndpointValues(w.idx)) :
       IF attemptIsFinal(r, w.attempt)
         THEN /\ w' = [w EXCEPT !.pc = "prev", !.result = r]
              /\ UNCHANGED runtime
         ELSE /\ w' = [w EXCEPT !.pc = "backoff", !.result = r,
                                !.retriesUsed = @ + 1]
              /\ \/ /\ runtime[w.idx].exists
                    /\ runtime' = [runtime EXCEPT ![w.idx] = retryingRow(@)]
                 \/ UNCHANGED runtime
  /\ UNCHANGED <<clock, monitors, checks, nextId, events, sends, channels, config, api>>

\* worker.go executeWithRetry, lines 321-331: the backoff timer fires and the
\* loop goes to its next attempt.
Backoff_Counted ==
  /\ w.pc = "backoff"
  /\ w' = [w EXCEPT !.pc = "attempt", !.attempt = @ + 1]
  /\ runtime' = [runtime EXCEPT ![w.idx].checkCount = @ + 1]
  /\ UNCHANGED <<clock, monitors, checks, nextId, events, sends, channels, config, api>>

Backoff ==
  /\ w.pc = "backoff"
  /\ w' = [w EXCEPT !.pc = "attempt", !.attempt = @ + 1]
  /\ UNCHANGED <<clock, dbVars, api>>

stoppedResult_Unmarked(result) == result

\* worker.go executeWithRetry, lines 324-327: the result of the last attempt,
\* marked as a failure with the message "worker stopped".
stoppedResult(result) ==
  [result EXCEPT !.errorMessage = "worker stopped", !.success = FALSE, !.status = "error"]

\* worker.go executeWithRetry, lines 322-328: the context given to Start is
\* cancelled while the backoff is waited for: the select takes ctx.Done() and
\* executeWithRetry returns.
BackoffStopped ==
  /\ w.pc = "backoff"
  /\ w' = [w EXCEPT !.pc = "cancelled", !.result = stoppedResult(@)]
  /\ UNCHANGED <<clock, dbVars, api>>

\* worker.go runMonitor, lines 222-232, tick, lines 106-133, and Start, lines
\* 82-84, under the cancelled context: every statement on the database returns
\* the context's error, so runMonitor returns at its first statement, the rest
\* of the loop stores nothing, and Start returns.
StoppedReturn ==
  /\ w.pc = "cancelled"
  /\ w' = Locals("stopped")
  /\ UNCHANGED <<clock, dbVars, api>>

\* -------------------------------------------------------- Worker.runMonitor

\* worker.go runMonitor, lines 222-228: with an existing selection the previous
\* one is loaded (an error returns) and the diff is built.
LoadPrevious ==
  /\ w.pc = "prev"
  /\ \/ w' = [w EXCEPT !.pc = "insert",
                       !.diff = buildSelectionDiff(loadPreviousSelection(w.idx),
                                                   w.result.sel)]
     \/ /\ w.result.sel # NoSel
        /\ w' = ErrorReturn(w)
  /\ UNCHANGED <<clock, dbVars, api>>

InsertCheck_Proceed ==
  /\ w.pc = "insert"
  /\ \/ /\ checks' = checks \cup {checkRow(nextId, w.idx, w.result, w.diff)}
        /\ nextId' = nextId + 1
        /\ w' = [w EXCEPT !.pc = "update", !.checkId = nextId]
     \/ /\ w' = [w EXCEPT !.pc = "update", !.checkId = nextId]
        /\ UNCHANGED <<checks, nextId>>
  /\ UNCHANGED <<clock, monitors, runtime, events, sends, channels, config, api>>

\* worker.go runMonitor, lines 230-232: the check result is inserted; an error
\* returns.
InsertCheck ==
  /\ w.pc = "insert"
  /\ \/ /\ foreignKeyHolds(w.idx)
        /\ checks' = checks \cup {checkRow(nextId, w.idx, w.result, w.diff)}
        /\ nextId' = nextId + 1
        /\ w' = [w EXCEPT !.pc = "update", !.checkId = nextId]
     \/ /\ w' = ErrorReturn(w)
        /\ UNCHANGED <<checks, nextId>>
  /\ UNCHANGED <<clock, monitors, runtime, events, sends, channels, config, api>>

\* worker.go runMonitor, lines 234-292: the runtime update is saved (an error
\* returns); a changed diff goes on to the notification.
SaveRuntime ==
  /\ w.pc = "update"
  /\ \/ /\ runtime[w.idx].exists
        /\ runtime' = [runtime EXCEPT ![w.idx] =
                         runtimeAfterRun(@, w.result, w.retriesUsed, w.disableAfterRun,
                                         w.rows[w.idx].mon.cron, w.now)]
        /\ w' = [w EXCEPT !.pc = IF w.diff.changed THEN "notify" ELSE "prune"]
     \/ /\ w' = ErrorReturn(w)
        /\ UNCHANGED runtime
  /\ UNCHANGED <<clock, monitors, checks, nextId, events, sends, channels, config, api>>

\* notify.go notifyMonitorDiff, lines 25-33: the channels are resolved; on an
\* error, or without channels, it returns.
ResolveChannels ==
  /\ w.pc = "notify"
  /\ \/ LET cs == SeqOf(enabledChannelsForMonitor(w.rows[w.idx].mon)) IN
          w' = IF cs = <<>> THEN NotifyReturn(w, NoErr)
               ELSE [w EXCEPT !.pc = "send", !.chans = cs]
     \/ w' = NotifyReturn(w, "resolve")
  /\ UNCHANGED <<clock, dbVars, api>>

SendChannel_SkipEvent ==
  /\ w.pc = "send"
  /\ LET c == Head(w.chans) IN
     \E sent \in BOOLEAN, saved \in BOOLEAN :
       /\ sends' = sends \cup {[check |-> w.checkId, channel |-> c]}
       /\ events' = IF saved /\ sent
                      THEN events \cup {[monitor |-> w.idx, channel |-> c,
                                         status |-> "sent", check |-> w.checkId]}
                      ELSE events
       /\ LET err == IF ~saved THEN "save" ELSE IF ~sent THEN "send" ELSE w.notifyErr IN
          w' = IF Tail(w.chans) = <<>> THEN NotifyReturn(w, err)
               ELSE [w EXCEPT !.chans = Tail(@), !.notifyErr = err]
  /\ UNCHANGED <<clock, monitors, runtime, checks, nextId, channels, config, api>>

\* notify.go notifyMonitorDiff, lines 35-54: one iteration: the message is sent
\* to the channel and the outcome is stored as an event; either may fail, and
\* notifyErr keeps the error of the last statement that failed.
SendChannel ==
  /\ w.pc = "send"
  /\ LET c == Head(w.chans) IN
     \E sent \in BOOLEAN, saved \in BOOLEAN :
       /\ saved => foreignKeyHolds(w.idx)
       /\ sends' = sends \cup {[check |-> w.checkId, channel |-> c]}
       /\ events' = IF saved
                      THEN events \cup {[monitor |-> w.idx, channel |-> c,
                                         status |-> IF sent THEN "sent" ELSE "error",
                                         check |-> w.checkId]}
                      ELSE events
       /\ LET err == IF ~saved THEN "save" ELSE IF ~sent THEN "send" ELSE w.notifyErr IN
          w' = IF Tail(w.chans) = <<>> THEN NotifyReturn(w, err)
               ELSE [w EXCEPT !.chans = Tail(@), !.notifyErr = err]
  /\ UNCHANGED <<clock, monitors, runtime, checks, nextId, channels, config, api>>

\* worker.go runMonitor, lines 294-299, getChecksHistoryLimit and
\* pruneCheckHistory, lines 556-588: the limit is read (the configuration row is
\* created when missing) and the rows past it are deleted; an error of a
\* statement returns with nothing deleted.
Prune ==
  /\ w.pc = "prune"
  /\ \/ LET cfg  == IF config.exists THEN config
                    ELSE [exists |-> TRUE, checksHistoryLimit |-> defaultChecksHistoryLimit]
            keep == cfg.checksHistoryLimit
        IN \/ /\ config' = cfg
              /\ checks' = IF keep <= 0 THEN checks ELSE checks \ staleRows(w.idx, keep)
           \/ /\ config' = cfg
              /\ UNCHANGED checks
     \/ UNCHANGED <<config, checks>>
  /\ w' = Continue(w)
  /\ UNCHANGED <<clock, monitors, runtime, nextId, events, sends, channels, api>>

\* ------------------------------------------------------------------ the API

\* server.go handleTriggerMonitor, lines 542-555: the runtime of the monitor
\* becomes pending with next_run_at = now (created when missing).
handleTriggerMonitor(m) ==
  /\ runtime' = [runtime EXCEPT ![m] =
                   [(IF @.exists THEN @ ELSE [NoRuntime EXCEPT !.exists = TRUE])
                      EXCEPT !.status = "pending", !.nextRunAt = clock]]
  /\ UNCHANGED <<clock, monitors, checks, nextId, events, sends, channels, config, w>>

\* The operator forces a run of a disabled monitor, between two ticks.
Trigger ==
  /\ w.pc \in {"stopped", "idle"}
  /\ \E m \in Monitors :
       /\ monitors[m].exists
       /\ ~monitors[m].enabled
       /\ handleTriggerMonitor(m)
  /\ UNCHANGED api

\* server.go handleUpdateMonitor, lines 346-465: a request that passed
\* normalizeMonitorRequest (its cron expression parses) replaces the monitor,
\* then the runtime is set to pending with the cron successor of now, or to
\* disabled without next_run_at (created when missing).  An error after the
\* first statement leaves the runtime as it is.
handleUpdateMonitor(m, req) ==
  LET nr   == nextRunFromCron(req.cron, clock)
      base == IF runtime[m].exists THEN runtime[m] ELSE [NoRuntime EXCEPT !.exists = TRUE]
  IN
  /\ monitors' = [monitors EXCEPT ![m] = [exists |-> TRUE, enabled |-> req.enabled,
                                          cron |-> req.cron, notify |-> req.notify,
                                          expectedType |-> req.expectedType,
                                          selector |-> req.selector]]
  /\ \/ /\ config' = IF config.exists THEN config
                     ELSE [exists |-> TRUE, checksHistoryLimit |-> defaultChecksHistoryKeep]
        /\ runtime' = [runtime EXCEPT ![m] =
                         IF req.enabled
                           THEN [base EXCEPT !.status = "pending", !.nextRunAt = nr.at]
                           ELSE [base EXCEPT !.status = "disabled", !.nextRunAt = Nil]]
     \/ UNCHANGED <<config, runtime>>
  /\ UNCHANGED <<clock, checks, nextId, events, sends, channels, w, api>>

\* The operator disables an enabled monitor, at any moment (the request repeats
\* the monitor's channel list).
Disable ==
  \E m \in Monitors, c \in Crons \ {BadCron} :
    /\ monitors[m].exists
    /\ monitors[m].enabled
    /\ handleUpdateMonitor(m, [enabled |-> FALSE, cron |-> c, notify |-> monitors[m].notify,
                               expectedType |-> monitors[m].expectedType,
                               selector |-> monitors[m].selector])

\* The operator enables a disabled monitor, or disables an enabled one, between
\* two ticks (the request repeats the monitor's other columns).
Toggle ==
  /\ w.pc \in {"stopped", "idle"}
  /\ \E m \in Monitors, c \in Crons \ {BadCron} :
       /\ monitors[m].exists
       /\ handleUpdateMonitor(m, [enabled |-> ~monitors[m].enabled, cron |-> c,
                                  notify |-> monitors[m].notify,
                                  expectedType |-> monitors[m].expectedType,
                                  selector |-> monitors[m].selector])

Next ==
  \/ Advance
  \/ Start
  \/ TickerFire
  \/ Crash
  \/ EnsureSystemConfig
  \/ LoadMonitors
  \/ ProcessRow
  \/ Attempt
  \/ Backoff
  \/ LoadPrevious
  \/ InsertCheck
  \/ SaveRuntime
  \/ ResolveChannels
  \/ SendChannel
  \/ Prune
  \/ Trigger

Spec == Init /\ [][Next]_vars

SpecTwo == InitTwo /\ [][Next]_vars

SpecExpect == InitExpect /\ [][Next]_vars

SpecCron == InitCron /\ [][Next]_vars

\* ------------------------------------------------------ Worker.executeOnce
\* One call of executeOnce, step by step.  Here w is the frame of the call: the
\* worker's limit, the monitor, the response (status class and length of its
\* body), the payload read and the result.

\* worker.go executeOnce, lines 380-383: the message of the size-limit error.
SizeMessage(limit) ==
  "response body exceeds " \o ToString(limit) \o " bytes limit"

\* worker.go executeOnce, lines 372-373: io.ReadAll(io.LimitReader(body, limit)),
\* as the number of bytes read.
readLimited(bodyLen, limit) == IF bodyLen < limit THEN bodyLen ELSE limit

exceedsLimit_Inclusive(payloadLen, limit) == payloadLen >= limit

\* worker.go executeOnce, line 379: len(payload) > w.maxResponseBodyBytes.
exceedsLimit(payloadLen, limit) == payloadLen > limit

\* worker.go executeOnce, line 338: the result before anything is known, and
\* the same result with an error message.
FailedResult(at, msg) ==
  [success |-> FALSE, status |-> "error", errorMessage |-> msg, sel |-> NoSel,
   checkedAt |-> at]

ExecuteOnceCall(limit, mon) ==
  [pc |-> "request", maxResponseBodyBytes |-> limit, mon |-> mon, statusOk |-> FALSE,
   bodyLen |-> 0, payload |-> 0, result |-> FailedResult(clock, "")]

\* worker.go NewWithConfig, lines 59-72, and a call of executeOnce for a
\* monitor of any expected type: the limit is any positive configured value.
InitExecute ==
  /\ clock = 0
  /\ api = NoRequest
  /\ \E p \in MonitorRows :
       /\ p.exists /\ p.enabled /\ p.notify /\ p.cron # BadCron
       /\ monitors = OnlyMonitor(p)
       /\ \E limit \in 1..MaxBody : w = ExecuteOnceCall(limit, p)
  /\ runtime = [m \in Monitors |-> NoRuntime]
  /\ checks = {}
  /\ nextId = FirstId
  /\ events = {}
  /\ sends = {}
  /\ channels = ChannelEnabled
  /\ config = NoConfig

\* worker.go executeOnce, lines 345-370: the request is sent; the client
\* returns an error, or a response with a status code and a body.
DoRequest ==
  /\ w.pc = "request"
  /\ \/ w' = [w EXCEPT !.pc = "returned", !.result = FailedResult(clock, "http")]
     \/ \E ok \in BOOLEAN, len \in 0..(MaxBody + 2) :
          w' = [w EXCEPT !.pc = "read", !.statusOk = ok, !.bodyLen = len]
  /\ UNCHANGED <<clock, dbVars, api>>

\* worker.go executeOnce, lines 372-386: at most limit + 1 bytes of the body
\* are read (the read may fail); a payload longer than the limit is an error.
ReadBody ==
  /\ w.pc = "read"
  /\ LET payload == readLimited(w.bodyLen, w.maxResponseBodyBytes + 1) IN
     \/ w' = [w EXCEPT !.pc = "returned", !.result = FailedResult(clock, "http")]
     \/ w' = IF exceedsLimit(payload, w.maxResponseBodyBytes)
               THEN [w EXCEPT !.pc = "returned", !.payload = payload,
                              !.result = FailedResult(clock,
                                                      SizeMessage(w.maxResponseBodyBytes))]
               ELSE [w EXCEPT !.pc = "evaluate", !.payload = payload]
  /\ UNCHANGED <<clock, dbVars, api>>

\* worker.go executeOnce, lines 388-408, and evaluateResponse, lines 436-438: a
\* status code outside 2xx fails; else the payload is evaluated.
EvaluateResponse ==
  /\ w.pc = "evaluate"
  /\ \E r \in OutcomesOf(w.mon, clock, Values) :
       /\ w.statusOk <=> r.errorMessage # "http"
       /\ w' = [w EXCEPT !.pc = "returned", !.result = r]
  /\ UNCHANGED <<clock, dbVars, api>>

\* worker.go executeWithRetry, line 307: executeOnce is called again.
CallAgain ==
  /\ w.pc = "returned"
  /\ w' = ExecuteOnceCall(w.maxResponseBodyBytes, w.mon)
  /\ UNCHANGED <<clock, dbVars, api>>

NextExecute ==
  \/ DoRequest
  \/ ReadBody
  \/ EvaluateResponse
  \/ CallAgain

SpecExecute == InitExecute /\ [][NextExecute]_vars

\* The worker started with a context that its caller may cancel.
NextStop ==
  \/ Next
  \/ BackoffStopped
  \/ StoppedReturn

SpecStop == InitExpect /\ [][NextStop]_vars

\* The worker with the operator switching the monitor on and off.
NextToggle ==
  \/ Next
  \/ Toggle

SpecToggle == InitApi /\ [][NextToggle]_vars

\* The worker with the update requests of the API.
NextApi ==
  \/ Next
  \/ Disable

SpecApi == InitApi /\ [][NextApi]_vars

\* ------------------------------------------------- the API creates a monitor
\* handleCreateMonitor, statement by statement, beside the worker: the monitor
\* is inserted, the configuration is ensured, the runtime is inserted.  The
\* statements are no transaction, so the worker may act between them.

\* An API request of handler op for the monitor m, at position pc.
Request(op, m, pc) == [op |-> op, m |-> m, pc |-> pc, status |-> 0, at |-> 0]

\* The request has answered with the status code; at is the id the table
\* check_results gives to its next row at that moment.
Answered(req, status) == [req EXCEPT !.pc = "done", !.status = status, !.at = nextId]

\* The id the table monitors gives to its next row.
nextMonitorId ==
  IF \A m \in Monitors : monitors[m].exists THEN 0
  ELSE CHOOSE m \in Monitors :
         ~monitors[m].exists /\ \A k \in Monitors : k < m => monitors[k].exists

\* server.go handleCreateMonitor, lines 273-313: a request that passed
\* normalizeMonitorRequest (its cron expression parses) inserts the monitor; an
\* error of the insert is answered with 500.
CreateMonitor ==
  /\ api.pc = "idle"
  /\ nextMonitorId # 0
  /\ \E p \in Profiles :
       /\ p.cron # BadCron
       /\ \/ /\ monitors' = [monitors EXCEPT ![nextMonitorId] = p]
             /\ api' = Request("create", nextMonitorId, "config")
          \/ /\ UNCHANGED monitors
             /\ api' = Answered(Request("create", 0, "idle"), 500)
  /\ UNCHANGED <<clock, runtime, checks, nextId, events, sends, channels, config, w>>

\* server.go handleCreateMonitor, lines 320-324, and ensureGlobalSystemConfig,
\* lines 1131-1146: the configuration is read, and created when it is missing;
\* an error is answered with 500.
CreateConfig ==
  /\ api.op = "create" /\ api.pc = "config"
  /\ \/ /\ config' = IF config.exists THEN config
                     ELSE [exists |-> TRUE, checksHistoryLimit |-> defaultChecksHistoryKeep]
        /\ api' = [api EXCEPT !.pc = "runtime"]
     \/ /\ UNCHANGED config
        /\ api' = Answered(api, 500)
  /\ UNCHANGED <<clock, monitors, runtime, checks, nextId, events, sends, channels, w>>

\* server.go handleCreateMonitor, lines 315-318 and 327-343: the runtime of the
\* created monitor is inserted, pending with the cron successor of now, or
\* disabled; the insert fails when the monitor has a runtime (monitor.go, lines
\* 61-68: the edge is unique), and its error is answered with 500, else the
\* answer is 201.
CreateRuntime ==
  /\ api.op = "create" /\ api.pc = "runtime"
  /\ LET created == monitors[api.m]
         nr == nextRunFromCron(created.cron, clock)
     IN IF ~runtime[api.m].exists
          THEN /\ runtime' = [runtime EXCEPT ![api.m] =
                                [NoRuntime EXCEPT
                                   !.exists = TRUE,
                                   !.status = IF created.enabled THEN "pending"
                                              ELSE "disabled",
                                   !.nextRunAt = IF created.enabled /\ ~nr.err
                                                   THEN nr.at ELSE Nil]]
               /\ api' = Answered(api, 201)
          ELSE /\ UNCHANGED runtime
               /\ api' = Answered(api, 500)
  /\ UNCHANGED <<clock, monitors, checks, nextId, events, sends, channels, config, w>>

\* The steps of the worker goroutine.
WorkerNext ==
  \/ Advance
  \/ Start
  \/ TickerFire
  \/ Crash
  \/ EnsureSystemConfig
  \/ LoadMonitors
  \/ ProcessRow
  \/ Attempt
  \/ Backoff
  \/ LoadPrevious
  \/ InsertCheck
  \/ SaveRuntime
  \/ ResolveChannels
  \/ SendChannel
  \/ Prune

NextCreate ==
  \/ WorkerNext
  \/ CreateMonitor
  \/ CreateConfig
  \/ CreateRuntime

SpecCreate == InitApi /\ [][NextCreate]_vars

\* ------------------------------------------------- the API deletes a monitor

\* server.go handleDeleteMonitor, lines 467-520: one transaction deletes the
\* check results, the notification events and the runtime of the monitor and
\* the monitor, and the answer is 204; an error rolls back and is answered
\* with 500.
DeleteMonitor ==
  /\ api.pc = "idle"
  /\ \E m \in Monitors :
       /\ monitors[m].exists
       /\ \/ /\ checks' = {r \in checks : r.monitor # m}
             /\ events' = {e \in events : e.monitor # m}
             /\ runtime' = [runtime EXCEPT ![m] = NoRuntime]
             /\ monitors' = [monitors EXCEPT ![m] = NoMonitor]
             /\ api' = Answered(Request("delete", m, "idle"), 204)
          \/ /\ UNCHANGED <<checks, events, runtime, monitors>>
             /\ api' = Answered(Request("delete", m, "idle"), 500)
  /\ UNCHANGED <<clock, nextId, sends, channels, config, w>>

NextDelete ==
  \/ WorkerNext
  \/ DeleteMonitor

SpecDelete == InitApi /\ [][NextDelete]_vars

\* ------------------------------------------------- the API triggers a monitor

\* server.go handleTriggerMonitor, lines 522-562, at any moment of the worker:
\* the runtime of the monitor is set to pending with next_run_at = now and the
\* answer is 200; an error of the statement is answered with 500.
TriggerRequest ==
  /\ api.pc = "idle"
  /\ \E m \in Monitors :
       /\ monitors[m].exists
       /\ \/ /\ handleTriggerMonitor(m)
             /\ api' = Answered(Request("trigger", m, "idle"), 200)
          \/ /\ api' = Answered(Request("trigger", m, "idle"), 500)
             /\ UNCHANGED <<clock, dbVars, w>>

NextTrigger ==
  \/ Next
  \/ TriggerRequest

SpecTrigger == Init /\ [][NextTrigger]_vars

\* ----------------------------------------------------------- the diff engine
\* buildSelectionDiff with every kind of selection.  A text is kept by what it
\* reads as: the empty text, a JSON document (null, a boolean, a number as it
\* is written, a string, an array, an object) or a plain text that is no JSON.
\* A string is a sequence of characters, so that strings are joined and
\* ordered as the code joins and orders them.

\* The characters of the model in the order of their bytes.
Bytes ==
  <<"\"", "+", "-", ".", "0", "1", "2", "3", "4", "5", "6", "7", "8", "9",
    "T", "Z", "a", "b", "d", "e", "f", "g", "i", "k", "l", "m", "n", "r",
    "s", "t", "u", "v", "y">>

CharCode(c) == CHOOSE i \in 1..Len(Bytes) : Bytes[i] = c

\* The order of Go strings, used by sort.Strings: byte by byte, a proper prefix
\* first.
RECURSIVE stringLess(_, _)
stringLess(a, b) ==
  IF b = <<>> THEN FALSE
  ELSE IF a = <<>> THEN TRUE
  ELSE IF Head(a) = Head(b) THEN stringLess(Tail(a), Tail(b))
  ELSE CharCode(Head(a)) < CharCode(Head(b))

\* sort.Strings: the list in ascending order, repetitions kept.
RECURSIVE sortStrings(_)
sortStrings(list) ==
  IF list = <<>> THEN <<>>
  ELSE LET least == CHOOSE i \in 1..Len(list) :
                      \A j \in 1..Len(list) : ~stringLess(list[j], list[i])
           rest  == [k \in 1..(Len(list) - 1) |->
                      IF k < least THEN list[k] ELSE list[k + 1]]
       IN  <<list[least]>> \o sortStrings(rest)

\* The nodes of a text.  A number is kept as written: units, the number of
\* digits after the point, and the exponent, for units * 10^(exp - places).
NoFields == [k \in {} |-> 0]

Node(t) ==
  [t |-> t, b |-> FALSE, units |-> 0, places |-> 0, exp |-> 0, s |-> <<>>,
   items |-> <<>>, fields |-> NoFields]

EmptyText       == Node("empty")
PlainText(s)    == [Node("text") EXCEPT !.s = s]
JBool(b)        == [Node("bool") EXCEPT !.b = b]
JNumber(u, p, e) == [Node("number") EXCEPT !.units = u, !.places = p, !.exp = e]
JString(s)      == [Node("string") EXCEPT !.s = s]
JArray(items)   == [Node("array") EXCEPT !.items = items]
JObject(fields) == [Node("object") EXCEPT !.fields = fields]

RECURSIVE Pow10(_)
Pow10(n) == IF n <= 0 THEN 1 ELSE 10 * Pow10(n - 1)

\* The largest decimal exponent of a float64.
MaxExp10 == 308

\* strconv.ParseFloat and the float64 of encoding/json: the number a numeral
\* stands for, with its trailing zeros and its exponent gone; one value per
\* number, however it was written.  A numeral out of range is an error.
RECURSIVE stripZeros(_, _)
stripZeros(units, places) ==
  IF places > 0 /\ units % 10 = 0 THEN stripZeros(units \div 10, places - 1)
  ELSE [units |-> units, places |-> places]

inRange(num) == num.units = 0 \/ num.exp - num.places < MaxExp10

ParseFloat(num) ==
  IF num.exp >= num.places
    THEN [units |-> num.units * Pow10(num.exp - num.places), places |-> 0]
    ELSE stripZeros(num.units, num.places - num.exp)

\* json.Unmarshal into any: the value of a JSON document, numbers as float64;
\* a document with a number out of range, and a text that is no JSON, are
\* errors.
RECURSIVE validJSON(_)
validJSON(doc) ==
  CASE doc.t \in {"empty", "text"} -> FALSE
    [] doc.t = "number" -> inRange(doc)
    [] doc.t = "array"  -> \A i \in 1..Len(doc.items) : validJSON(doc.items[i])
    [] doc.t = "object" -> \A k \in DOMAIN doc.fields : validJSON(doc.fields[k])
    [] OTHER -> TRUE

RECURSIVE Unmarshal(_)
Unmarshal(doc) ==
  CASE doc.t = "number" -> JNumber(ParseFloat(doc).units, ParseFloat(doc).places, 0)
    [] doc.t = "array"  -> JArray([i \in 1..Len(doc.items) |-> Unmarshal(doc.items[i])])
    [] doc.t = "object" -> JObject([k \in DOMAIN doc.fields |-> Unmarshal(doc.fields[k])])
    [] OTHER -> doc

\* strconv.FormatFloat(f, 'f', -1, 64), the way encoding/json writes a float64
\* of ordinary size.
RECURSIVE digits(_, _)
digits(n, places) ==
  IF n < 10 /\ places <= 1 THEN <<Bytes[CharCode("0") + n]>>
  ELSE digits(n \div 10, places - 1) \o <<Bytes[CharCode("0") + (n % 10)]>>

FormatFloat(f) ==
  LET abs  == IF f.units < 0 THEN -f.units ELSE f.units
      sign == IF f.units < 0 THEN <<"-">> ELSE <<>>
      unit == Pow10(f.places)
  IN  sign \o digits(abs \div unit, 1)
        \o (IF f.places = 0 THEN <<>> ELSE <<".">> \o digits(abs % unit, f.places))

\* notificationevent.go stableJSON, lines 678-684: json.Marshal of a primitive
\* value.
stableJSON(value) ==
  CASE value.t = "null"   -> <<"n", "u", "l", "l">>
    [] value.t = "bool"   -> IF value.b THEN <<"t", "r", "u", "e">>
                                        ELSE <<"f", "a", "l", "s", "e">>
    [] value.t = "number" -> FormatFloat(ParseFloat(value))
    [] value.t = "string" -> <<"\"">> \o value.s \o <<"\"">>

\* notificationevent.go selectionSnapshot, lines 56-61, and selectionDiff, lines
\* 63-68 (of the details: the delta of a number, the identity key, the lists
\* and counts of added, removed and updated, and the keys the details hold).
Snapshot(type, raw, value) ==
  [Exists |-> TRUE, Type |-> type, Raw |-> raw, Value |-> value]

NilSnapshot  == [Exists |-> FALSE, Type |-> "nil", Raw |-> EmptyText, Value |-> EmptyText]
NoSelection  == [Exists |-> FALSE, Type |-> "none", Raw |-> EmptyText, Value |-> EmptyText]

SelectionDiff(kind, changed) ==
  [Kind |-> kind, Changed |-> changed, delta |-> [units |-> 0, places |-> 0],
   keyField |-> <<>>,
   added |-> <<>>, removed |-> <<>>, updated |-> <<>>,
   addedCounts |-> NoFields, removedCounts |-> NoFields,
   reorderedOnly |-> FALSE, details |-> {}]

NilDiff == SelectionDiff("nil", FALSE)

selectionKind_ByType(snapshot) ==
  IF ~snapshot.Exists THEN "none" ELSE snapshot.Type

selectionKind_RawOnly(snapshot) ==
  IF ~snapshot.Exists THEN "none"
  ELSE CASE snapshot.Type = "string" -> "text"
         [] snapshot.Type = "number" -> "number"
         [] snapshot.Type \in {"true", "false"} -> "boolean"
         [] snapshot.Type = "null" -> "null"
         [] snapshot.Type = "json" ->
              CASE snapshot.Raw.t = "array"  -> "array"
                [] snapshot.Raw.t = "object" -> "object"
                [] OTHER -> "json"
         [] OTHER -> "unknown"

\* notificationevent.go selectionKind, lines 134-163.
selectionKind(snapshot) ==
  IF ~snapshot.Exists THEN "none"
  ELSE CASE snapshot.Type = "string" -> "text"
         [] snapshot.Type = "number" -> "number"
         [] snapshot.Type \in {"true", "false"} -> "boolean"
         [] snapshot.Type = "null" -> "null"
         [] snapshot.Type = "json" ->
              LET raw == IF snapshot.Raw = EmptyText THEN snapshot.Value
                         ELSE snapshot.Raw
              IN  CASE raw.t = "array"  -> "array"
                    [] raw.t = "object" -> "object"
                    [] OTHER -> "json"
         [] OTHER -> "unknown"

\* notificationevent.go buildTextDiff, lines 165-181.
buildTextDiff_ByRaw(previous, current) ==
  [SelectionDiff("text", previous.Raw # current.Raw)
     EXCEPT !.details = {"old", "new"}]

buildTextDiff(previous, current) ==
  [SelectionDiff("text", previous.Value # current.Value)
     EXCEPT !.details = {"old", "new"}]

\* notificationevent.go decimalPlacesFromNumericString, lines 710-746: the
\* digits after the point less the exponent, never below zero; -1 for a text
\* that is no number.
decimalPlacesFromNumericString(raw) ==
  IF raw.t # "number" \/ ~inRange(raw) THEN -1
  ELSE IF raw.places - raw.exp < 0 THEN 0 ELSE raw.places - raw.exp

\* notificationevent.go maxDecimalPlaces, lines 748-759.
maxDecimalPlaces(left, right) ==
  IF left < 0 THEN right
  ELSE IF right < 0 THEN left
  ELSE IF left > right THEN left ELSE right

\* The float64 difference current - previous, one digit beyond the precision
\* asked for: the exact difference of the two numbers and the error of the
\* binary representation, err in that last digit; equal numbers differ by 0.
GuardDigits == 1

floatSub(currentNumber, previousNumber, precision, err) ==
  LET places == precision + GuardDigits
      exact  == currentNumber.units * Pow10(places - currentNumber.places)
                  - previousNumber.units * Pow10(places - previousNumber.places)
  IN  [units |-> IF exact = 0 THEN 0 ELSE exact + err, places |-> places]

\* math.Round: to the nearest integer, halves away from zero.
Round(n, unit) ==
  IF n >= 0 THEN (2 * n + unit) \div (2 * unit)
  ELSE -((2 * (-n) + unit) \div (2 * unit))

roundToDecimalPlaces_Exact(value, decimalPlaces) == value

\* notificationevent.go roundToDecimalPlaces, lines 761-774.
roundToDecimalPlaces(value, decimalPlaces) ==
  IF decimalPlaces < 0 \/ value.places <= decimalPlaces
    THEN stripZeros(value.units, value.places)
  ELSE stripZeros(Round(value.units, Pow10(value.places - decimalPlaces)),
                  decimalPlaces)

\* notificationevent.go buildNumberDiff, lines 183-221; err is the error of the
\* float64 subtraction.
buildNumberDiff(previous, current, err) ==
  IF previous.Value.t # "number" \/ ~inRange(previous.Value)
       \/ current.Value.t # "number" \/ ~inRange(current.Value)
    THEN buildTextDiff(previous, current)
    ELSE LET previousNumber == ParseFloat(previous.Value)
             currentNumber  == ParseFloat(current.Value)
             precision == maxDecimalPlaces(
                            decimalPlacesFromNumericString(previous.Value),
                            decimalPlacesFromNumericString(current.Value))
             delta == roundToDecimalPlaces(
                        floatSub(currentNumber, previousNumber, precision, err),
                        precision)
         IN  [SelectionDiff("number", delta.units # 0)
                EXCEPT !.delta = delta,
                       !.details = {"old", "new", "delta"} \cup
                                   (IF previousNumber.units # 0 THEN {"percent"} ELSE {})]

\* notificationevent.go buildBooleanDiff, lines 223-239.
buildBooleanDiff(previous, current) ==
  [SelectionDiff("boolean", (previous.Type = "true") # (current.Type = "true"))
     EXCEPT !.details = {"old", "new"}]

\* notificationevent.go parseDateTime, lines 267-281, on the time of day of an
\* RFC 3339 text, in hours: T<hour>Z, T<hour>+<offset> or T<hour>-<offset>.
digitValue(c) ==
  IF CharCode(c) \in CharCode("0")..CharCode("9") THEN CharCode(c) - CharCode("0")
  ELSE -1

parseDateTime(value) ==
  LET s == value.s IN
  IF value.t # "text" \/ Len(s) \notin {3, 4} \/ s[1] # "T" THEN [ok |-> FALSE, at |-> 0]
  ELSE IF digitValue(s[2]) < 0 THEN [ok |-> FALSE, at |-> 0]
  ELSE IF Len(s) = 3
    THEN [ok |-> s[3] = "Z", at |-> digitValue(s[2])]
    ELSE IF s[3] \in {"+", "-"} /\ digitValue(s[4]) >= 0
      THEN [ok |-> TRUE,
            at |-> IF s[3] = "+" THEN digitValue(s[2]) - digitValue(s[4])
                   ELSE digitValue(s[2]) + digitValue(s[4])]
      ELSE [ok |-> FALSE, at |-> 0]

\* notificationevent.go buildDateTimeDiff, lines 241-264: nil unless both
\* values are times.
buildDateTimeDiff(previous, current) ==
  LET previousTime == parseDateTime(previous.Value)
      currentTime  == parseDateTime(current.Value)
  IN  IF ~previousTime.ok \/ ~currentTime.ok THEN NilDiff
      ELSE [SelectionDiff("dateTime", currentTime.at # previousTime.at)
              EXCEPT !.details = {"old", "new", "deltaSeconds"}]

\* notificationevent.go allPrimitives, lines 578-587.
allPrimitives(values) ==
  \A i \in 1..Len(values) : values[i].t \in {"null", "string", "number", "bool"}

\* notificationevent.go arrayCountMap, lines 589-598: the encodings in order,
\* and how often each occurs.
arrayOrder(values) == [i \in 1..Len(values) |-> stableJSON(values[i])]

arrayCounts(values) ==
  LET ordered == arrayOrder(values) IN
  [key \in {ordered[i] : i \in 1..Len(ordered)} |->
     Cardinality({i \in 1..Len(ordered) : ordered[i] = key})]

mapCountDiff_Presence(left, right) ==
  [key \in DOMAIN left \ DOMAIN right |-> left[key]]

\* notificationevent.go mapCountDiff, lines 600-609.
mapCountDiff(left, right) ==
  LET rightCount(key) == IF key \in DOMAIN right THEN right[key] ELSE 0 IN
  [key \in {k \in DOMAIN left : left[k] - rightCount(k) > 0} |->
     left[key] - rightCount(key)]

\* notificationevent.go buildPrimitiveArrayDiff, lines 325-358: nil unless every
\* element of both arrays is a primitive.
buildPrimitiveArrayDiff(previousArray, currentArray) ==
  IF ~allPrimitives(previousArray) \/ ~allPrimitives(currentArray) THEN NilDiff
  ELSE LET added   == mapCountDiff(arrayCounts(currentArray), arrayCounts(previousArray))
           removed == mapCountDiff(arrayCounts(previousArray), arrayCounts(currentArray))
           reorderOnly == /\ DOMAIN added = {} /\ DOMAIN removed = {}
                          /\ arrayOrder(previousArray) # arrayOrder(currentArray)
           changed == reorderOnly \/ DOMAIN added # {} \/ DOMAIN removed # {}
       IN  [SelectionDiff(IF reorderOnly THEN "arrayReorder" ELSE "array", changed)
              EXCEPT !.addedCounts = added, !.removedCounts = removed,
                     !.reorderedOnly = reorderOnly,
                     !.details = {"oldCount", "newCount", "added", "removed",
                                  "reorderedOnly"}]

\* notificationevent.go asObjectSlice, lines 619-629: every element is an
\* object.
allObjects(values) == \A i \in 1..Len(values) : values[i].t = "object"

\* notificationevent.go hasUniqueKey, lines 641-660: every item has the key,
\* with a value that is no null, object or array, and no two items have the
\* same encoding of it.
hasUniqueKey(key, values) ==
  /\ \A i \in 1..Len(values) :
       /\ key \in DOMAIN values[i].fields
       /\ values[i].fields[key].t \notin {"null", "object", "array"}
  /\ \A i, j \in 1..Len(values) :
       i # j => stableJSON(values[i].fields[key]) # stableJSON(values[j].fields[key])

\* notificationevent.go detectObjectArrayKey, line 632.
candidates ==
  << <<"i", "d">>, <<"k", "e", "y">>, <<"n", "a", "m", "e">>,
     <<"s", "l", "u", "g">>, <<"u", "u", "i", "d">> >>

detectObjectArrayKey_Last(previous, current) ==
  LET usable == {i \in 1..Len(candidates) :
                   hasUniqueKey(candidates[i], previous)
                     /\ hasUniqueKey(candidates[i], current)}
  IN  IF usable = {} THEN <<>>
      ELSE candidates[CHOOSE i \in usable : \A j \in usable : j <= i]

\* notificationevent.go detectObjectArrayKey, lines 631-639: the first
\* candidate that is a unique key of both arrays, or none.
detectObjectArrayKey(previous, current) ==
  LET usable == {i \in 1..Len(candidates) :
                   hasUniqueKey(candidates[i], previous)
                     /\ hasUniqueKey(candidates[i], current)}
  IN  IF usable = {} THEN <<>>
      ELSE candidates[CHOOSE i \in usable : \A j \in usable : i <= j]

\* notificationevent.go mapObjectsByKey, lines 662-676: the items by the
\* encoding of their key.
mapObjectsByKey(values, key) ==
  [encodedKey \in {stableJSON(values[i].fields[key]) : i \in 1..Len(values)} |->
     values[CHOOSE i \in 1..Len(values) :
              stableJSON(values[i].fields[key]) = encodedKey]]

RECURSIVE sortedList_Descending(_)
sortedList_Descending(keys) ==
  IF keys = {} THEN <<>>
  ELSE LET last == CHOOSE k \in keys : \A o \in keys : ~stringLess(k, o)
       IN  <<last>> \o sortedList_Descending(keys \ {last})

\* A set of strings as a list, in the order sort.Strings gives it.
RECURSIVE sortedList(_)
sortedList(keys) ==
  IF keys = {} THEN <<>>
  ELSE LET least == CHOOSE k \in keys : \A o \in keys : ~stringLess(o, k)
       IN  <<least>> \o sortedList(keys \ {least})

\* notificationevent.go buildKeyedObjectArrayDiff, lines 360-418: nil unless
\* both arrays hold objects only and have an identity key.
buildKeyedObjectArrayDiff(previousArray, currentArray) ==
  IF ~allObjects(previousArray) \/ ~allObjects(currentArray) THEN NilDiff
  ELSE LET keyField == detectObjectArrayKey(previousArray, currentArray) IN
       IF keyField = <<>> THEN NilDiff
       ELSE LET previousMap == mapObjectsByKey(previousArray, keyField)
                currentMap  == mapObjectsByKey(currentArray, keyField)
                added   == sortedList(DOMAIN currentMap \ DOMAIN previousMap)
                removed == sortedList(DOMAIN previousMap \ DOMAIN currentMap)
                updated == sortedList({key \in DOMAIN previousMap \cap DOMAIN currentMap :
                                         previousMap[key] # currentMap[key]})
            IN  [SelectionDiff("arrayObject",
                               Len(added) > 0 \/ Len(removed) > 0 \/ Len(updated) > 0)
                   EXCEPT !.keyField = keyField, !.added = added,
                          !.removed = removed, !.updated = updated,
                          !.details = {"keyField", "added", "removed", "updated"}]

\* notificationevent.go parseJSONArrayPair, lines 311-323: json.Unmarshal of
\* both values into slices; null gives the nil slice.
parseJSONArrayPair(previous, current) ==
  [ok |-> \A value \in {previous.Value, current.Value} :
            validJSON(value) /\ value.t \in {"array", "null"},
   previousArray |-> Unmarshal(previous.Value).items,
   currentArray  |-> Unmarshal(current.Value).items]

\* notificationevent.go buildArrayDiff, lines 283-309.
buildArrayDiff(previous, current) ==
  IF ~parseJSONArrayPair(previous, current).ok
    THEN buildTextDiff(previous, current)
    ELSE LET previousArray == parseJSONArrayPair(previous, current).previousArray
             currentArray  == parseJSONArrayPair(previous, current).currentArray
             primitiveDiff == buildPrimitiveArrayDiff(previousArray, currentArray)
             keyedDiff     == buildKeyedObjectArrayDiff(previousArray, currentArray)
         IN  IF primitiveDiff # NilDiff THEN primitiveDiff
             ELSE IF keyedDiff # NilDiff THEN keyedDiff
             ELSE [SelectionDiff("array", previousArray # currentArray)
                     EXCEPT !.details = {"oldCount", "newCount"}]

NoPaths == [added |-> <<>>, removed |-> <<>>, changed |-> <<>>]

\* notificationevent.go collectObjectDiff, lines 473-529: the keys of both
\* objects in order; a key of one side only is added or removed, two objects
\* are walked, two other values are compared.
RECURSIVE collectObjectDiff(_, _, _)
RECURSIVE collectKeys(_, _, _, _)
collectKeys(keys, prefix, previous, current) ==
  IF keys = <<>> THEN NoPaths
  ELSE LET key  == Head(keys)
           path == IF prefix = <<>> THEN key ELSE prefix \o <<".">> \o key
           rest == collectKeys(Tail(keys), prefix, previous, current)
           here ==
             IF key \notin DOMAIN previous.fields
               THEN [NoPaths EXCEPT !.added = <<path>>]
             ELSE IF key \notin DOMAIN current.fields
               THEN [NoPaths EXCEPT !.removed = <<path>>]
             ELSE IF previous.fields[key].t = "object" /\ current.fields[key].t = "object"
               THEN collectObjectDiff(path, previous.fields[key], current.fields[key])
             ELSE IF previous.fields[key] # current.fields[key]
               THEN [NoPaths EXCEPT !.changed = <<path>>]
             ELSE NoPaths
       IN  [added   |-> here.added \o rest.added,
            removed |-> here.removed \o rest.removed,
            changed |-> here.changed \o rest.changed]

collectObjectDiff(prefix, previous, current) ==
  collectKeys(sortedList(DOMAIN previous.fields \cup DOMAIN current.fields),
              prefix, previous, current)

\* notificationevent.go buildObjectDiff, lines 420-471.
buildObjectDiff(previous, current) ==
  IF ~validJSON(previous.Value) \/ ~validJSON(current.Value)
       \/ previous.Value.t # "object" \/ current.Value.t # "object"
    THEN buildTextDiff(previous, current)
    ELSE LET paths   == collectObjectDiff(<<>>, Unmarshal(previous.Value),
                                          Unmarshal(current.Value))
             added   == sortStrings(paths.added)
             removed == sortStrings(paths.removed)
             changedPaths == sortStrings(paths.changed)
         IN  [SelectionDiff("object",
                            Len(added) > 0 \/ Len(removed) > 0 \/ Len(changedPaths) > 0)
                EXCEPT !.added = added, !.removed = removed, !.updated = changedPaths,
                       !.details =
                         (IF Len(added) > 0 THEN {"added"} ELSE {}) \cup
                         (IF Len(removed) > 0 THEN {"removed"} ELSE {}) \cup
                         (IF Len(changedPaths) > 0 THEN {"changed", "changes"} ELSE {})]

\* notificationevent.go buildSelectionDiff, lines 70-132, for a selection of
\* any kind; err is the error of the float64 subtraction of buildNumberDiff.
buildSelectionDiffOfKind(previous, current, err) ==
  IF ~current.Exists THEN NilDiff
  ELSE IF ~previous.Exists
    THEN [SelectionDiff("initial", FALSE) EXCEPT !.details = {"type", "current"}]
  ELSE IF selectionKind(previous) # selectionKind(current)
    THEN [SelectionDiff("typeChanged", TRUE)
            EXCEPT !.details = {"oldType", "newType", "old", "new"}]
  ELSE CASE selectionKind(current) = "number" -> buildNumberDiff(previous, current, err)
         [] selectionKind(current) = "boolean" -> buildBooleanDiff(previous, current)
         [] selectionKind(current) = "null" ->
              [SelectionDiff("null", previous.Type # current.Type)
                 EXCEPT !.details = {"old", "new"}]
         [] selectionKind(current) = "text" ->
              IF buildDateTimeDiff(previous, current) # NilDiff
                THEN buildDateTimeDiff(previous, current)
                ELSE buildTextDiff(previous, current)
         [] selectionKind(current) = "array" -> buildArrayDiff(previous, current)
         [] selectionKind(current) = "object" -> buildObjectDiff(previous, current)
         [] OTHER -> buildTextDiff(previous, current)

\* ------------------------------------------------- the selections of a monitor
\* One monitor's selections, run after run.  Here w is the frame of a run: the
\* endpoint of the monitor, the previous selection as loadPreviousSelection
\* rebuilds it, the current selection, and the diff of the two.

MaxItems == 2

\* The document a string's content reads as: a digit reads as a number, any
\* other content of the model is no JSON.
readText(s) ==
  IF Len(s) = 1 /\ digitValue(s[1]) >= 0 THEN JNumber(digitValue(s[1]), 0, 0)
  ELSE PlainText(s)

\* part_007 normalizeValue, lines 68-87: the content of a string; else the
\* document decoded and encoded again, or as it is when it cannot be decoded.
normalizeValue(raw) ==
  IF raw.t = "string" THEN readText(raw.s)
  ELSE IF validJSON(raw) THEN Unmarshal(raw) ELSE raw

\* part_007 gjsonType, lines 49-66.
gjsonType(raw) ==
  CASE raw.t = "null"   -> "null"
    [] raw.t = "bool"   -> IF raw.b THEN "true" ELSE "false"
    [] raw.t = "number" -> "number"
    [] raw.t = "string" -> "string"
    [] raw.t \in {"array", "object"} -> "json"
    [] OTHER -> "none"

\* part_007 SelectJSON, lines 35-46: the selection of a document that the
\* selector finds.
SelectJSON(raw) == Snapshot(gjsonType(raw), raw, normalizeValue(raw))

\* The same selection with its value as it is written.
AsWritten(raw) == Snapshot(gjsonType(raw), raw, raw)

\* The documents of an endpoint: scalars (strings, numbers as they may be
\* written, booleans, null); arrays of primitives; arrays of items with the
\* identity key id, and the same items changed; arrays of items whose id
\* repeats, is null or is an array, with the next candidate; objects with a
\* nested object and with a key that holds a point.
Endpoints ==
  LET one   == JNumber(1, 0, 0)
      two   == JNumber(2, 0, 0)
      three == JNumber(3, 0, 0)
      id    == candidates[1]
      key   == candidates[2]
      arrays(elements) ==
        {JArray(items) : items \in UNION {[1..n -> elements] : n \in 0..MaxItems}}
      strings ==
        { <<"a">>, <<"b">>, <<"1">>, <<"T", "1", "Z">>, <<"T", "2", "+", "1">>,
          <<"T", "2", "Z">> }
      numerals ==
        { one, JNumber(10, 1, 0), JNumber(15, 1, 0), JNumber(150, 2, 0),
          JNumber(41, 1, 0), JNumber(15, 0, -1), JNumber(1, 0, 400) }
      identified ==
        { JObject(id :> one @@ <<"v">> :> one), JObject(id :> two @@ <<"v">> :> one),
          JObject(id :> two @@ <<"v">> :> JString(<<"a">>)),
          JObject(id :> three @@ <<"v">> :> one) }
      others ==
        { JObject(id :> one @@ key :> JString(<<"a">>)),
          JObject(id :> one @@ key :> JString(<<"b">>)),
          JObject(id :> Node("null") @@ key :> JString(<<"a">>)),
          JObject(id :> JArray(<<>>) @@ key :> JString(<<"b">>)) }
      inner == {JObject(NoFields), JObject(<<"b">> :> one), JObject(<<"b">> :> two)}
  IN  << {Node("null"), JBool(TRUE), JBool(FALSE)} \cup numerals
           \cup {JString(s) : s \in strings},
         arrays({one, JNumber(10, 1, 0), JString(<<"a">>), Node("null")}),
         arrays(identified),
         arrays(others),
         {JObject(f) :
            f \in UNION {[keys -> {one, two} \cup inner] :
                           keys \in SUBSET {<<"a">>, <<"a", ".", "b">>}}} >>

\* Documents of the other kinds, which any endpoint may return as well.
Foreign ==
  { Node("null"), JNumber(1, 0, 0), JString(<<"1">>), JArray(<<>>),
    JArray(<<JNumber(1, 0, 0)>>), JArray(<<JObject(<<"v">> :> JNumber(1, 0, 0))>>),
    JObject(NoFields) }

\* The selections a run may find at an endpoint: none, the selection of a
\* document, or a number with its value as written.
Selections(endpoint) ==
  {NoSelection} \cup {SelectJSON(raw) : raw \in Endpoints[endpoint] \cup Foreign}
                \cup {AsWritten(raw) : raw \in {d \in Endpoints[endpoint] : d.t = "number"}}

FloatErrors == {-1, 0, 1}

SelectionRun(endpoint, previous, current) ==
  [pc |-> "diff", endpoint |-> endpoint, previous |-> previous, current |-> current,
   diff |-> NilDiff]

\* A monitor without history, and the selection of its first run.
InitDiff ==
  /\ clock = 0
  /\ api = NoRequest
  /\ monitors = [m \in Monitors |-> NoMonitor]
  /\ runtime = [m \in Monitors |-> NoRuntime]
  /\ checks = {}
  /\ nextId = FirstId
  /\ events = {}
  /\ sends = {}
  /\ channels = ChannelEnabled
  /\ config = NoConfig
  /\ \E endpoint \in DOMAIN Endpoints :
       \E current \in Selections(endpoint) :
         w = SelectionRun(endpoint, NilSnapshot, current)

\* worker.go runMonitor, lines 222-228: the diff of the previous and the current
\* selection; no diff without a current selection.
BuildDiff ==
  /\ w.pc = "diff"
  /\ \E err \in FloatErrors :
       w' = [w EXCEPT !.pc = "insert",
                      !.diff = buildSelectionDiffOfKind(w.previous, w.current, err)]
  /\ UNCHANGED <<clock, dbVars, api>>

\* worker.go insertCheckResult, lines 505-509, and loadPreviousSelection, lines
\* 529-554: an existing selection is stored with its type and its value, and
\* the next run finds the latest stored selection, without its raw text.
storedSelection(previous, current) ==
  IF current.Exists THEN Snapshot(current.Type, EmptyText, current.Value)
  ELSE previous

NextRun ==
  /\ w.pc = "insert"
  /\ \E current \in Selections(w.endpoint) :
       w' = SelectionRun(w.endpoint, storedSelection(w.previous, w.current), current)
  /\ UNCHANGED <<clock, dbVars, api>>

NextDiff ==
  \/ BuildDiff
  \/ NextRun

SpecDiff == InitDiff /\ [][NextDiff]_vars

\* ------------------------------------------------ the selector payload cache

\* server.go lines 43-44, scaled: the cache holds selectorPayloadCacheSize
\* entries (8 in the source) for selectorPayloadTTL clock units (ten minutes in
\* the source).
selectorPayloadCacheSize == 2
selectorPayloadTTL == 2

\* server.go lines 1446 and 1501: !entry.expiresAt.After(now).
expired_Before(entry, now) == entry.expiresAt < now

expired(entry, now) == ~(entry.expiresAt > now)

oldestKeys_Newest(cache) ==
  {key \in DOMAIN cache :
     \A other \in DOMAIN cache : cache[other].expiresAt <= cache[key].expiresAt}

\* server.go lines 1453-1460: the keys the scan for the earliest expiry may end
\* on; the order of a map iteration decides among entries of equal expiry.
oldestKeys(cache) ==
  {key \in DOMAIN cache :
     \A other \in DOMAIN cache : cache[key].expiresAt <= cache[other].expiresAt}

\* A server after New (server.go lines 71-82) with a limit of one byte and an
\* empty cache; calls lists the goroutines that are in storeSelectorPayload
\* before the mutex, in the order of their arrival, each with its payload and
\* the expiry it computed. Tokens are numbered, as many as a store can need to
\* find one that is not in use, and 0 is the empty token; last is
\* what the latest call returned (for
\* a refused store the payload it was given, for a store that went through the
\* key it evicted, 0 for none).
InitCache ==
  /\ clock = 0
  /\ api = NoRequest
  /\ monitors = [m \in Monitors |-> NoMonitor]
  /\ runtime = [m \in Monitors |-> NoRuntime]
  /\ checks = {}
  /\ nextId = FirstId
  /\ events = {}
  /\ sends = {}
  /\ channels = ChannelEnabled
  /\ config = NoConfig
  /\ w = [pc |-> "idle", maxSelectorPayloadBytes |-> 1,
          selectorPayloads |-> NoFields,
          calls |-> <<>>,
          last |-> [op |-> "none", token |-> 0, payload |-> <<>>, ok |-> FALSE,
                    oldestKey |-> 0]]

\* server.go storeSelectorPayload, lines 1434-1440: an empty or over-limit
\* payload returns the empty token; else the expiry is computed and the payload
\* copied, before the mutex is taken.
StoreEnter ==
  /\ Len(w.calls) < 2
  /\ \E payload \in {<<>>, <<"x">>, <<"y">>, <<"x", "y">>} :
       IF Len(payload) = 0 \/ Len(payload) > w.maxSelectorPayloadBytes
         THEN w' = [w EXCEPT !.last = [op |-> "store", token |-> 0,
                                       payload |-> payload, ok |-> FALSE,
                                       oldestKey |-> 0]]
         ELSE w' = [w EXCEPT !.calls =
                       Append(w.calls, [payload |-> payload,
                                        expiresAt |-> clock + selectorPayloadTTL])]
  /\ UNCHANGED <<clock, dbVars, api>>

\* server.go storeSelectorPayload, lines 1442-1484, under the mutex: expired
\* entries are purged, a full cache loses one entry of earliest expiry, and the
\* payload is stored under a random token that is not in use; the empty token
\* returns when rand.Read fails or four tokens in a row are in use.
StoreLocked ==
  /\ \E c \in DOMAIN w.calls :
       LET cache == w.selectorPayloads
           live  == [key \in {k \in DOMAIN cache : ~expired(cache[k], clock)} |-> cache[key]]
           full  == Cardinality(DOMAIN live) >= selectorPayloadCacheSize
       IN \E oldestKey \in (IF full THEN oldestKeys(live) ELSE {0}) :
            LET kept == [key \in DOMAIN live \ {oldestKey} |-> live[key]]
            IN \E token \in 0..selectorPayloadCacheSize :
                 /\ token \notin DOMAIN kept
                 /\ w' = [w EXCEPT
                      !.selectorPayloads =
                         IF token = 0 THEN kept
                         ELSE [key \in DOMAIN kept \cup {token} |->
                                 IF key = token
                                   THEN [payload |-> w.calls[c].payload,
                                         expiresAt |-> w.calls[c].expiresAt]
                                   ELSE kept[key]],
                      !.calls = SubSeq(w.calls, 1, c - 1) \o
                                SubSeq(w.calls, c + 1, Len(w.calls)),
                      !.last = [op |-> "store", token |-> token,
                                payload |-> <<>>, ok |-> token # 0,
                                oldestKey |-> oldestKey]]
  /\ UNCHANGED <<clock, dbVars, api>>

\* server.go loadSelectorPayload, lines 1486-1506: a blank or unknown token
\* misses; an expired entry is deleted and misses; else a copy of the payload.
LoadSelectorPayload ==
  /\ \E token \in 0..selectorPayloadCacheSize :
       LET cache == w.selectorPayloads
           miss  == [op |-> "load", token |-> token, payload |-> <<>>, ok |-> FALSE,
                     oldestKey |-> 0]
       IN IF token = 0 \/ token \notin DOMAIN cache
            THEN w' = [w EXCEPT !.last = miss]
          ELSE IF expired(cache[token], clock)
            THEN w' = [w EXCEPT !.last = miss,
                                !.selectorPayloads =
                                   [key \in DOMAIN cache \ {token} |-> cache[key]]]
          ELSE w' = [w EXCEPT !.last = [op |-> "load", token |-> token,
                                        payload |-> cache[token].payload, ok |-> TRUE,
                                        oldestKey |-> 0]]
  /\ UNCHANGED <<clock, dbVars, api>>

\* Time passes between the calls and while a caller waits for the mutex, until
\* what was stored at the start has expired.
Elapse ==
  /\ clock < selectorPayloadTTL
  /\ clock' = clock + 1
  /\ UNCHANGED <<dbVars, w, api>>

NextCache ==
  \/ Elapse
  \/ StoreEnter
  \/ StoreLocked
  \/ LoadSelectorPayload

SpecCache == InitCache /\ [][NextCache]_vars

\* ------------------------------------------------------ the runtime settings

\* server.go nextRunFromCron, lines 1365-1380: the first activation strictly
\* after now of the schedule read in the location, or an error when the
\* expression does not parse. A location is its offset from UTC in clock units;
\* "every p time units" is every local time that p divides.
nextRunFromCronIn_UTC(expr, now, location) == nextRunFromCron(expr, now)

nextRunFromCronIn(expr, now, location) ==
  IF expr = BadCron
    THEN [err |-> TRUE, at |-> Nil]
    ELSE [err |-> FALSE, at |-> (((now + location) \div expr) + 1) * expr - location]

\* server.go realignEnabledMonitorRuntimes, lines 1200-1239, over the rows of
\* the enabled monitors: each gets the cron successor of now as next_run_at, in
\* a new pending runtime or in its runtime, which leaves the status disabled
\* for pending; the first error ends the loop.
RECURSIVE realignEnabledMonitorRuntimes(_, _, _, _)
realignEnabledMonitorRuntimes(rows, rt, now, location) ==
  IF rows = <<>> THEN [err |-> FALSE, runtime |-> rt]
  ELSE LET row     == Head(rows)
           nextRun == nextRunFromCronIn(monitors[row].cron, now, location)
       IN IF nextRun.err THEN [err |-> TRUE, runtime |-> rt]
          ELSE realignEnabledMonitorRuntimes(
                 Tail(rows),
                 [rt EXCEPT ![row] =
                    IF ~rt[row].exists
                      THEN [NoRuntime EXCEPT !.exists = TRUE, !.status = "pending",
                                             !.nextRunAt = nextRun.at]
                      ELSE [rt[row] EXCEPT
                              !.nextRunAt = nextRun.at,
                              !.status = IF @ = "disabled" THEN "pending" ELSE @]],
                 now, location)

\* Two monitors, enabled or disabled, the schedule of each every time unit,
\* every second time unit or unparseable (a row written past the validation of
\* the API), with what an earlier run or an earlier disabled period left; the
\* configuration row missing, without a timezone, or with one (Nil: none).
InitSettings ==
  \E enabled \in [Monitors -> BOOLEAN], crons \in [Monitors -> {BadCron, 1, 2}] :
    /\ \A m \in Monitors : ~enabled[m] => crons[m] # BadCron
    /\ InitDatabase([m \in Monitors |->
                       [exists |-> TRUE, enabled |-> enabled[m], cron |-> crons[m],
                        notify |-> FALSE, expectedType |-> "json", selector |-> TRUE]],
                    ChannelEnabled, [Monitors -> {"fresh", "ok", "off"}],
                    {[exists |-> FALSE, checksHistoryLimit |-> 0, timezone |-> Nil]} \cup
                    {[exists |-> TRUE, checksHistoryLimit |-> defaultChecksHistoryKeep,
                      timezone |-> zone] : zone \in {Nil, 0, 1}})

\* server.go handleUpsertRuntimeSettings, lines 885-957: a limit below 10 or a
\* timezone that does not load is refused; else the configuration row is
\* ensured (lines 1131-1146) and, in one transaction, updated, and the enabled
\* monitors are realigned when the timezone is not the valid one stored. An
\* error in the transaction rolls it back.
UpsertRuntimeSettings ==
  /\ \E checksHistoryLimit \in {9, 10}, timezone \in {Nil, 0, 1} :
       IF checksHistoryLimit < 10 \/ timezone = Nil
         THEN UNCHANGED <<config, runtime>>
         ELSE LET ensured == IF config.exists THEN config
                             ELSE [exists |-> TRUE,
                                   checksHistoryLimit |-> defaultChecksHistoryKeep,
                                   timezone |-> Nil]
                  timezoneChanged == ensured.timezone = Nil \/ ensured.timezone # timezone
                  rows == SeqOf({m \in Monitors : monitors[m].exists /\ monitors[m].enabled})
                  realigned == IF timezoneChanged
                                 THEN realignEnabledMonitorRuntimes(rows, runtime, clock,
                                                                    timezone)
                                 ELSE [err |-> FALSE, runtime |-> runtime]
              IN \/ UNCHANGED <<config, runtime>>
                 \/ config' = ensured /\ UNCHANGED runtime
                 \/ /\ ~realigned.err
                    /\ config' = [ensured EXCEPT !.checksHistoryLimit = checksHistoryLimit,
                                                 !.timezone = timezone]
                    /\ runtime' = realigned.runtime
  /\ UNCHANGED <<clock, monitors, checks, nextId, events, sends, channels, w, api>>

NextSettings ==
  \/ Advance
  \/ UpsertRuntimeSettings

SpecSettings == InitSettings /\ [][NextSettings]_vars

\* ------------------------------------------------------------- properties

\* The worker is in runMonitor: before, or after, the runtime update is saved.
BeforeSave == w.pc \in {"attempt", "backoff", "prev", "insert", "update"}
AfterSave  == w.pc \in {"notify", "send", "prune"}

\* The worker is in the loop of tick (it holds the loaded rows).
InLoop == w.pc \notin {"stopped", "idle", "config", "load"}

\* The check result with this id is stored for the monitor.
StoredBy(id, m) == \E r \in checks : r.id = id /\ r.monitor = m

\* The row the tick loaded for the monitor it is at.
LoadedMon == w.rows[w.idx].mon
LoadedRt  == w.rows[w.idx].rt

\* The loaded runtime has a next_run_at that is not after the time t.
LoadedDueAt(t) ==
  LoadedRt.exists /\ LoadedRt.nextRunAt # Nil /\ LoadedRt.nextRunAt <= t

\* C1: a disabled target whose runtime is pending with next_run_at set and not
\* after the tick's now is run by that tick with disableAfterRun; a run of a
\* disabled target starts in no other case; the run inserts one check result,
\* and its runtime update leaves status disabled and next_run_at null; a
\* runtime with status disabled has no next_run_at, so it is not due again.
C1_ForcedRun ==
  /\ [](\A m \in Monitors : runtime[m].status = "disabled" => runtime[m].nextRunAt = Nil)
  /\ [][ /\ (w.pc = "row" /\ ~LoadedMon.enabled /\ LoadedRt.status = "pending"
               /\ LoadedDueAt(w.now))
              => \/ w'.pc = "stopped"
                 \/ w'.pc = "attempt" /\ w'.idx = w.idx /\ w'.disableAfterRun
         /\ (w.pc = "row" /\ w'.pc = "attempt" /\ ~LoadedMon.enabled)
              => LoadedRt.status = "pending" /\ LoadedDueAt(w.now) /\ w'.disableAfterRun
         /\ (~(checks' \subseteq checks))
              => /\ w.pc = "insert" /\ w'.pc = "update"
                 /\ Cardinality(checks' \ checks) = 1
         /\ (w.pc = "update" /\ w.disableAfterRun /\ runtime' # runtime)
              => /\ runtime'[w.idx].status = "disabled"
                 /\ runtime'[w.idx].nextRunAt = Nil
                 /\ runtime'[w.idx].checkCount = runtime[w.idx].checkCount + 1
                 /\ StoredBy(w.checkId, w.idx)
     ]_vars

\* C1 happens: the forced run of a disabled monitor has saved its update.
C1_Witness ==
  /\ AfterSave /\ w.disableAfterRun
  /\ ~monitors[w.idx].enabled
  /\ StoredBy(w.checkId, w.idx)
  /\ runtime[w.idx].status = "disabled" /\ runtime[w.idx].nextRunAt = Nil

\* C2: a step of the worker that counts a check in a runtime, or moves its
\* next_run_at to a later time, is the runtime update of a run of that monitor,
\* and the check result of that run is stored then, with the time and the
\* selection of the run's result.
C2_ResultBeforeAdvance ==
  [][\A m \in Monitors :
       (/\ w' # w
        /\ \/ runtime'[m].checkCount # runtime[m].checkCount
           \/ /\ runtime[m].nextRunAt # Nil /\ runtime'[m].nextRunAt # Nil
              /\ runtime'[m].nextRunAt > runtime[m].nextRunAt)
         => /\ w.pc = "update" /\ w.idx = m
            /\ \E r \in checks : /\ r.id = w.checkId /\ r.monitor = m
                                 /\ r.checkedAt = w.result.checkedAt
                                 /\ r.sel = w.result.sel
            /\ checks' = checks
     ]_vars

\* C2 happens: a run of an enabled monitor has moved next_run_at past the tick's
\* now, and its check result is stored.
C2_Witness ==
  /\ AfterSave /\ ~w.disableAfterRun
  /\ runtime[w.idx].nextRunAt # Nil /\ runtime[w.idx].nextRunAt > w.now
  /\ StoredBy(w.checkId, w.idx)

\* While a run executes, each attempt after the first was counted as a retry.
RetriesCounted ==
  w.pc \in {"attempt", "backoff"}
    => w.retriesUsed = w.attempt + (IF w.pc = "backoff" THEN 1 ELSE 0)

\* C3 as stated: a run whose every attempt fails makes 1 + maxRetries attempts,
\* ends with status error and adds maxRetries to retry_count.
C3_AsStated ==
  /\ []RetriesCounted
  /\ [][(w.pc = "update" /\ ~w.result.success /\ runtime' # runtime)
          => /\ w.attempt = maxRetries
             /\ w.retriesUsed = maxRetries
             /\ runtime'[w.idx].retryCount = runtime[w.idx].retryCount + maxRetries
             /\ runtime'[w.idx].status = "error"
       ]_vars

\* C3: a run whose every attempt fails makes 1 + maxRetries attempts and adds
\* maxRetries to retry_count; it ends with status error, or, when it is the
\* forced run of a disabled target, with status disabled.
C3_RetryExhaustion ==
  /\ []RetriesCounted
  /\ [][(w.pc = "update" /\ ~w.result.success /\ runtime' # runtime)
          => /\ w.attempt = maxRetries
             /\ w.retriesUsed = maxRetries
             /\ runtime'[w.idx].retryCount = runtime[w.idx].retryCount + maxRetries
             /\ runtime'[w.idx].status = IF w.disableAfterRun THEN "disabled" ELSE "error"
       ]_vars

\* C3 happens: a run of an enabled monitor failed in all its attempts and has
\* saved its update.
C3_Witness ==
  /\ AfterSave /\ ~w.result.success /\ ~w.disableAfterRun
  /\ w.attempt = maxRetries
  /\ runtime[w.idx].status = "error"
  /\ runtime[w.idx].retryCount >= maxRetries

\* C4 as stated: every stored check result with a changed diff, once the run
\* that stored it is past its notification, has been sent to every enabled
\* channel the monitor lists.  (A send is an attempt; a row the run has left
\* behind is never sent later, sends being made for the row of the run only.)
C4_AtLeastOnce ==
  \A r \in checks :
    (r.diffChanged /\ ~(BeforeSave /\ w.checkId = r.id)
                   /\ ~(w.pc \in {"notify", "send"} /\ w.checkId = r.id))
      => \A c \in enabledChannelsForMonitor(monitors[r.monitor]) :
           [check |-> r.id, channel |-> c] \in sends

\* C5 as stated: whenever the worker writes a runtime and leaves it without
\* next_run_at, it leaves it with status disabled.
C5_AsStated ==
  [][\A m \in Monitors :
       (w' # w /\ runtime'[m] # runtime[m] /\ runtime'[m].nextRunAt = Nil)
         => runtime'[m].status = "disabled"
     ]_vars

\* C5: whenever the worker writes a runtime and leaves it without next_run_at,
\* it leaves it with status disabled, or it is ensureRuntime on an enabled
\* target whose cron expression does not parse (status pending or error), or it
\* is the retry of a run whose target was disabled through the API meanwhile
\* (status retrying; next_run_at was cleared by that request).
C5_NullNextRun ==
  [][\A m \in Monitors :
       (w' # w /\ runtime'[m] # runtime[m] /\ runtime'[m].nextRunAt = Nil)
         => \/ runtime'[m].status = "disabled"
            \/ /\ w.pc = "row" /\ w.idx = m
               /\ LoadedMon.enabled /\ LoadedMon.cron = BadCron
               /\ runtime'[m].status \in {"pending", "error"}
            \/ /\ w.pc = "attempt" /\ w.idx = m
               /\ runtime'[m].status = "retrying"
               /\ runtime[m].nextRunAt = Nil
               /\ ~monitors[m].enabled
     ]_vars

\* C5 happens: the worker has stored status error, without next_run_at, for an
\* enabled monitor whose cron expression does not parse.
C5_Witness ==
  \E m \in Monitors :
    /\ monitors[m].enabled /\ monitors[m].cron = BadCron
    /\ runtime[m].exists /\ runtime[m].nextRunAt = Nil
    /\ runtime[m].status = "error" /\ runtime[m].lastErrorMessage = "cron"

\* C6: only the retention step deletes check results; when it deletes, the
\* limit is positive, the rows deleted are rows of the monitor of the run, as
\* many rows of it as the limit remain, and every row kept is more recent, by
\* (checked_at, id), than every row deleted.
C6_Retention ==
  [][(checks' # checks /\ w.pc # "insert")
       => LET keep    == config'.checksHistoryLimit
              kept    == {r \in checks' : r.monitor = w.idx}
              deleted == checks \ checks'
          IN /\ w.pc = "prune"
             /\ config'.exists /\ keep > 0
             /\ checks' \subseteq checks
             /\ \A d \in deleted : d.monitor = w.idx
             /\ Cardinality(kept) = keep
             /\ \A r \in kept, d \in deleted : later(r, d)
     ]_vars

\* C6 happens: the monitor has counted two checks, the limit is 1, and one row
\* of it is left, the one of the later run.
C6_Witness ==
  /\ w.pc \in {"row", "idle"}
  /\ config.exists /\ config.checksHistoryLimit = 1
  /\ runtime[1].checkCount = 2
  /\ \E r \in checks : r.id >= FirstId /\ checksOf(1) = {r}

\* The times of the model, and an absent time.
Times == 0..(MaxTime + Minute)

\* C7: shouldTriggerStartupCatchUp(next, startup) is true exactly when next is
\* set and not after startup; Start makes the first tick at once, with the
\* start time as the cutoff; that tick runs an enabled target whose stored
\* next_run_at is not after the start time, and logs the catch-up exactly for
\* the runs whose next_run_at is not after the start time.
C7_StartupCatchUp ==
  /\ \A n \in Times \cup {Nil}, s \in Times :
       shouldTriggerStartupCatchUp(n, s) <=> (n # Nil /\ n <= s)
  /\ []((BeforeSave /\ w.startup # Nil) => (w.catchUp <=> w.rt.nextRunAt <= w.startup))
  /\ [][ /\ (w.pc = "stopped" /\ w'.pc # "stopped")
              => w'.pc = "config" /\ w'.startup = clock /\ clock' = clock
         /\ (w.pc = "row" /\ w.startup # Nil /\ LoadedMon.enabled
               /\ LoadedRt.status # "disabled" /\ LoadedDueAt(w.startup))
              => \/ w'.pc = "stopped"
                 \/ w'.pc = "attempt" /\ w'.idx = w.idx /\ w'.catchUp
     ]_vars

\* C7 happens: the first tick after a start runs an enabled monitor whose
\* next_run_at is not after the start time.
C7_Witness ==
  /\ w.pc = "attempt" /\ w.startup # Nil /\ w.catchUp
  /\ LoadedMon.enabled
  /\ w.rt.nextRunAt <= w.startup

\* The stored state makes the enabled monitor due.
DueInDb(m) ==
  /\ monitors[m].enabled
  /\ runtime[m].exists /\ runtime[m].status # "disabled"
  /\ runtime[m].nextRunAt # Nil /\ runtime[m].nextRunAt <= clock

\* C8: while a run of an enabled target has not saved its runtime update, the
\* stored state keeps the target due (status retrying included); a process
\* stop changes nothing stored; and the first tick after a start runs an enabled
\* target that it loads as due, whatever status other than disabled it has.
C8_RestartResilience ==
  /\ []((BeforeSave /\ LoadedMon.enabled) => DueInDb(w.idx))
  /\ [][ /\ (w.pc # "stopped" /\ w'.pc = "stopped") => UNCHANGED <<dbVars, api>>
         /\ (w.pc = "row" /\ w.startup # Nil /\ LoadedMon.enabled
               /\ LoadedRt.status # "disabled" /\ LoadedDueAt(w.now))
              => \/ w'.pc = "stopped"
                 \/ w'.pc = "attempt" /\ w'.idx = w.idx
     ]_vars

\* C8 happens: the first tick after a start runs an enabled monitor that a
\* stopped run left with status retrying.
C8_Witness ==
  /\ w.pc = "attempt" /\ w.startup # Nil
  /\ LoadedMon.enabled
  /\ w.rt.status = "retrying"

\* The loaded row after the one the tick is at, if any.
NextLoaded ==
  LET rest == RowsAfter(w.rows, w.idx) IN
  IF rest = {} THEN 0 ELSE CHOOSE m \in rest : \A o \in rest : m <= o

\* C9: within the loop of a tick, whatever a target's step returns, the tick
\* ends only after the last loaded row, goes from a row to the next loaded row
\* only, keeps the rows it loaded and its timestamps, and a step on one target
\* changes no runtime and no check result of another target.
C9_ErrorIsolation ==
  [][InLoop =>
       /\ w'.pc = "idle" => RowsAfter(w.rows, w.idx) = {}
       /\ (w'.pc \notin {"stopped", "idle"})
            => /\ w'.rows = w.rows /\ w'.now = w.now /\ w'.startup = w.startup
               /\ \/ w'.idx = w.idx /\ w'.pc # "row"
                  \/ w'.idx = NextLoaded /\ w'.pc = "row"
       /\ \A m \in Monitors \ {w.idx} :
            /\ runtime'[m] = runtime[m]
            /\ {r \in checks' : r.monitor = m} = checksOf(m)
     ]_vars

\* C9 happens: the run of the first monitor stored its check result but failed
\* to save its runtime update (it is still due), and the tick is at the second
\* monitor.
C9_Witness ==
  /\ w.pc = "row" /\ w.idx = 2
  /\ w.rows[1].mon.exists /\ w.rows[1].mon.enabled
  /\ \E r \in checks : r.monitor = 1 /\ r.id >= FirstId /\ r.checkedAt = w.now
  /\ runtime[1].nextRunAt # Nil /\ runtime[1].nextRunAt <= w.now

\* C10: from the moment the runtime update of a run is saved, the stored check
\* result and runtime of the run are what the result of the run made them;
\* resolving the channels and sending, whether they succeed or fail, change no
\* runtime, check result or configuration, and lead to the next send or to the
\* retention step of the same run.
C10_NotifyNeverFailsCheck ==
  /\ [](AfterSave =>
          /\ \E r \in checks : /\ r.id = w.checkId /\ r.monitor = w.idx
                               /\ r.sel = w.result.sel
                               /\ r.diffChanged = w.diff.changed
          /\ runtime[w.idx].status = IF w.disableAfterRun THEN "disabled" ELSE w.result.status
          /\ IF w.disableAfterRun THEN runtime[w.idx].nextRunAt = Nil
             ELSE runtime[w.idx].nextRunAt # Nil /\ runtime[w.idx].nextRunAt > w.now)
  /\ [][(w.pc \in {"notify", "send"})
          => /\ UNCHANGED <<monitors, runtime, checks, nextId, config>>
             /\ \/ w'.pc = "stopped"
                \/ /\ w'.pc \in {"send", "prune"}
                   /\ w'.idx = w.idx /\ w'.checkId = w.checkId /\ w'.result = w.result
       ]_vars

\* C10 happens: a successful check with a changed diff whose sends all failed
\* has reached the retention step.
C10_Witness ==
  /\ w.pc = "prune" /\ w.notifyErr # NoErr /\ w.diff.changed /\ w.result.success
  /\ runtime[w.idx].status = "ok"
  /\ \A c \in Channels :
       \E e \in events : e.check = w.checkId /\ e.channel = c /\ e.status = "error"

\* C11 as stated: resolving the channels of a changed diff leads to a send to
\* each of them in turn; every iteration sends to its channel and stores one
\* event for it, with status sent or error, whatever the earlier iterations
\* returned; the error returned is the one of the last statement that failed.
C11_AsStated ==
  [][ /\ (w.pc = "notify" /\ w'.pc = "send")
           => /\ w'.chans = SeqOf(enabledChannelsForMonitor(LoadedMon))
              /\ w'.notifyErr = NoErr
      /\ (w.pc = "send" /\ w'.pc # "stopped")
           => LET c   == Head(w.chans)
                  new == events' \ events
              IN /\ [check |-> w.checkId, channel |-> c] \in sends'
                 /\ events \subseteq events'
                 /\ Cardinality(new) = 1
                 /\ \A e \in new : /\ e.monitor = w.idx /\ e.channel = c
                                    /\ e.check = w.checkId
                                    /\ e.status \in {"sent", "error"}
                 /\ w'.notifyErr = IF \E e \in new : e.status = "error"
                                     THEN "send" ELSE w.notifyErr
                 /\ IF Tail(w.chans) = <<>> THEN w'.pc = "prune"
                    ELSE w'.pc = "send" /\ w'.chans = Tail(w.chans)
    ]_vars

\* C11: as stated, except that an iteration whose event cannot be stored leaves
\* no event for its channel, and then the error returned is that of the store.
C11_NotifyEveryChannel ==
  [][ /\ (w.pc = "notify" /\ w'.pc = "send")
           => /\ w'.chans = SeqOf(enabledChannelsForMonitor(LoadedMon))
              /\ w'.notifyErr = NoErr
      /\ (w.pc = "send" /\ w'.pc # "stopped")
           => LET c   == Head(w.chans)
                  new == events' \ events
              IN /\ [check |-> w.checkId, channel |-> c] \in sends'
                 /\ events \subseteq events'
                 /\ Cardinality(new) <= 1
                 /\ \A e \in new : /\ e.monitor = w.idx /\ e.channel = c
                                    /\ e.check = w.checkId
                                    /\ e.status \in {"sent", "error"}
                 /\ w'.notifyErr = IF new = {} THEN "save"
                                     ELSE IF \E e \in new : e.status = "error"
                                       THEN "send" ELSE w.notifyErr
                 /\ IF Tail(w.chans) = <<>> THEN w'.pc = "prune"
                    ELSE w'.pc = "send" /\ w'.chans = Tail(w.chans)
    ]_vars

\* C11 happens: the send of a changed diff failed, the event with status error
\* is stored for the channel, and notifyMonitorDiff has returned that error.
C11_Witness ==
  /\ w.pc = "prune" /\ w.diff.changed /\ w.notifyErr = "send"
  /\ \E c \in Channels :
       /\ [check |-> w.checkId, channel |-> c] \in sends
       /\ {e \in events : e.check = w.checkId /\ e.channel = c}
            = {[monitor |-> w.idx, channel |-> c, status |-> "error", check |-> w.checkId]}

\* C12: a step that hands a message to the transport or stores a notification
\* event is an iteration of the send loop of a run whose result has a selection
\* and whose diff is changed, that is, the stored check result of the run is
\* marked changed and an earlier stored result of the target holds a different
\* selection (so the diff is not an initial one), and the target lists the
\* channel's kind; sends and events are never removed.
C12_NotifyOnlyOnChange ==
  [][(sends' # sends \/ events' # events)
       => /\ w.pc = "send"
          /\ sends \subseteq sends' /\ events \subseteq events'
          /\ w.result.sel # NoSel
          /\ w.diff.kind \notin {"none", "initial"} /\ w.diff.changed
          /\ \E r \in checks : r.id = w.checkId /\ r.monitor = w.idx /\ r.diffChanged
          /\ \E r \in checks : /\ r.monitor = w.idx /\ r.id # w.checkId
                               /\ r.sel \notin {NoSel, w.result.sel}
          /\ LoadedMon.notify
          /\ \A x \in (sends' \ sends) \cup (events' \ events) :
               x.check = w.checkId /\ channels[x.channel]
    ]_vars

\* C12 happens: the run of a target with an empty channel list found a changed
\* diff while the channel is enabled, and reached the retention step with
\* nothing sent and no event stored.
C12_Witness ==
  /\ w.pc = "prune" /\ w.diff.changed
  /\ ~LoadedMon.notify
  /\ \E c \in Channels : channels[c]
  /\ \A x \in sends \cup events : x.check # w.checkId

\* C13 as stated: an attempt that fails because a selector is set with expected
\* type html or text is the only attempt of its run, and no retry is counted;
\* the runtime update of the run leaves retry_count as it was and stores the
\* error text as last_error_message.
C13_ConfigErrorNotRetried ==
  [][ /\ (w.pc = "attempt" /\ w'.pc \in {"prev", "backoff"}
             /\ w'.result.errorMessage = "selector")
           => w'.pc = "prev" /\ w.attempt = 0 /\ w'.retriesUsed = 0
      /\ (w.pc = "update" /\ w.result.errorMessage = "selector" /\ runtime' # runtime)
           => /\ runtime'[w.idx].retryCount = runtime[w.idx].retryCount
              /\ runtime'[w.idx].lastErrorMessage = "selector"
    ]_vars

\* C14: when the cancellation is observed in a backoff, executeWithRetry returns
\* the result of the last attempt as a failure with status error and the
\* message "worker stopped", with the retries counted so far; after it no
\* attempt is made: the worker stores nothing more and ends.
C14_StoppedInBackoff ==
  /\ [](w.pc = "cancelled"
          => /\ ~w.result.success /\ w.result.status = "error"
             /\ w.result.errorMessage = "worker stopped"
             /\ w.retriesUsed = w.attempt + 1 /\ w.attempt < maxRetries)
  /\ [][ /\ (w'.pc = "cancelled" /\ w.pc # "cancelled")
              => /\ w.pc = "backoff" /\ UNCHANGED <<dbVars, api>>
                 /\ w'.attempt = w.attempt /\ w'.retriesUsed = w.retriesUsed
                 /\ w'.result.sel = w.result.sel
                 /\ w'.result.checkedAt = w.result.checkedAt
         /\ (w.pc = "cancelled")
              => w'.pc \in {"cancelled", "stopped"} /\ UNCHANGED <<dbVars, api>>
     ]_vars

\* C14 happens: the cancellation was observed in the backoff after the first
\* attempt of a run, whose result was an HTTP failure.
C14_Witness ==
  /\ w.pc = "cancelled" /\ w.attempt = 0 /\ w.retriesUsed = 1
  /\ w.result.errorMessage = "worker stopped"
  /\ runtime[w.idx].status = "retrying"

\* C15: the runtime update of a run of an enabled target: after a failure the
\* status is error, error_count and consecutive_errors are one more than stored
\* and consecutive_successes is 0; after a success the status is ok,
\* success_count and consecutive_successes are one more than stored,
\* consecutive_errors is 0 and last_error_message is empty; the counter of the
\* other outcome is as stored, and check_count is one more.
C15_OutcomeBookkeeping ==
  [][(w.pc = "update" /\ ~w.disableAfterRun /\ runtime' # runtime)
       => LET old == runtime[w.idx]
              new == runtime'[w.idx]
          IN /\ LoadedMon.enabled
             /\ new.checkCount = old.checkCount + 1
             /\ IF w.result.success
                  THEN /\ new.status = "ok"
                       /\ new.successCount = old.successCount + 1
                       /\ new.consecutiveSuccesses = old.consecutiveSuccesses + 1
                       /\ new.consecutiveErrors = 0
                       /\ new.lastErrorMessage = ""
                       /\ new.errorCount = old.errorCount
                  ELSE /\ new.status = "error"
                       /\ new.errorCount = old.errorCount + 1
                       /\ new.consecutiveErrors = old.consecutiveErrors + 1
                       /\ new.consecutiveSuccesses = 0
                       /\ new.successCount = old.successCount
    ]_vars

\* C15 happens: a run of an enabled target failed after an earlier success, and
\* its update has reset the streak of successes.
C15_Witness ==
  /\ AfterSave /\ ~w.disableAfterRun /\ ~w.result.success
  /\ runtime[w.idx].status = "error"
  /\ runtime[w.idx].successCount = 1 /\ runtime[w.idx].consecutiveSuccesses = 0
  /\ runtime[w.idx].errorCount = 1 /\ runtime[w.idx].consecutiveErrors = 1

\* C16: a run starts only in the loop of a tick, at the row of its target; the
\* step of the tick on a row starts the run of the target exactly when the
\* runtime stored after ensureRuntime has a next_run_at that is not after the
\* tick's now, and the target is enabled or the status is pending.
C16_Dueness ==
  [][ /\ (w'.pc = "attempt" /\ w.pc \notin {"attempt", "backoff"})
           => w.pc = "row" /\ w'.idx = w.idx
      /\ (w.pc = "row" /\ w'.pc # "stopped")
           => LET rt == runtime'[w.idx] IN
              (w'.pc = "attempt")
                <=> /\ rt.exists /\ rt.nextRunAt # Nil /\ rt.nextRunAt <= w.now
                    /\ (monitors[w.idx].enabled \/ rt.status = "pending")
    ]_vars

\* C16 happens: the tick runs an enabled target whose next_run_at equals the
\* tick's now.
C16_Witness ==
  /\ w.pc = "attempt" /\ w.attempt = 0
  /\ monitors[w.idx].enabled
  /\ runtime[w.idx].nextRunAt = w.now /\ w.now > 0

\* The runtime agrees with the target: an enabled target's runtime is not
\* disabled; a disabled target's runtime is disabled without next_run_at, or
\* pending with next_run_at (a forced run waiting).
Agreement(mon, rt) ==
  IF mon.enabled THEN rt.status # "disabled"
  ELSE \/ rt.status = "disabled" /\ rt.nextRunAt = Nil
       \/ rt.status = "pending" /\ rt.nextRunAt # Nil

\* C17: at every row of a tick the step of ensureRuntime that leaves the stored
\* runtime in agreement with the target is possible, and a step at a row that
\* does not leave it so is one that wrote nothing and started no run (its
\* statement failed); the waiting forced run of a disabled target is left as it
\* is; the runtime update of a run leaves the runtime in agreement as well.
C17_StatusEnabledAgreement ==
  /\ [](w.pc = "row"
          => ENABLED (/\ ProcessRow
                      /\ runtime'[w.idx].exists
                      /\ Agreement(monitors[w.idx], runtime'[w.idx])))
  /\ [][ /\ (w.pc = "row" /\ w'.pc # "stopped")
              => \/ runtime'[w.idx].exists /\ Agreement(LoadedMon, runtime'[w.idx])
                 \/ runtime' = runtime /\ w'.pc # "attempt"
         /\ (w.pc = "row" /\ ~LoadedMon.enabled /\ LoadedRt.exists
               /\ LoadedRt.status = "pending" /\ LoadedRt.nextRunAt # Nil)
              => runtime' = runtime
         /\ (w.pc = "update" /\ runtime' # runtime)
              => Agreement(LoadedMon, runtime'[w.idx])
     ]_vars

\* C17 happens: a target with an earlier check was switched off and then forced
\* to run once; ensureRuntime left the waiting run as it was, the tick ran it,
\* and the runtime is disabled without next_run_at.
C17_Witness ==
  /\ AfterSave /\ ~LoadedMon.enabled /\ ~monitors[w.idx].enabled
  /\ LoadedRt.status = "pending" /\ LoadedRt.nextRunAt # Nil
  /\ runtime[w.idx].checkCount = 2
  /\ runtime[w.idx].status = "disabled" /\ runtime[w.idx].nextRunAt = Nil

\* The tick is at the row of an enabled target whose cron expression does not
\* parse and whose loaded runtime has no next_run_at.
AtUnparseable ==
  /\ w.pc = "row"
  /\ LoadedMon.enabled /\ LoadedMon.cron = BadCron
  /\ LoadedRt.exists /\ LoadedRt.nextRunAt = Nil

\* The stored state of such a target.
Unparseable(m) ==
  /\ monitors[m].enabled /\ monitors[m].cron = BadCron
  /\ runtime[m].exists /\ runtime[m].nextRunAt = Nil

\* C18 as stated: at such a row the tick can store status error with the parse
\* error as last_error_message; its step stores exactly that (or nothing, when
\* the statement fails), starts no run and stores no check result; and the
\* target stays without next_run_at, so every tick does the same.
C18_AsStated ==
  /\ [](AtUnparseable
          => ENABLED (/\ ProcessRow
                      /\ runtime'[w.idx].status = "error"
                      /\ runtime'[w.idx].lastErrorMessage = "cron"))
  /\ [][ /\ (AtUnparseable /\ w'.pc # "stopped")
              => /\ w'.pc # "attempt"
                 /\ UNCHANGED <<checks, nextId>>
                 /\ \/ runtime' = runtime
                    \/ runtime' = [runtime EXCEPT ![w.idx] =
                                     [@ EXCEPT !.status = "error",
                                               !.lastErrorMessage = "cron"]]
         /\ \A m \in Monitors : Unparseable(m) => Unparseable(m)'
     ]_vars

\* C18: as stated, for a runtime whose status is not disabled.  With status
\* disabled the tick stores status pending and no error message, leaving
\* next_run_at null; the tick after it stores the error.
C18_UnparseableCron ==
  /\ [](AtUnparseable
          => ENABLED (/\ ProcessRow
                      /\ IF LoadedRt.status = "disabled"
                           THEN runtime'[w.idx].status = "pending"
                           ELSE /\ runtime'[w.idx].status = "error"
                                /\ runtime'[w.idx].lastErrorMessage = "cron"))
  /\ [][ /\ (AtUnparseable /\ w'.pc # "stopped")
              => /\ w'.pc # "attempt"
                 /\ UNCHANGED <<checks, nextId>>
                 /\ \/ runtime' = runtime
                    \/ runtime' = [runtime EXCEPT ![w.idx] =
                                     IF LoadedRt.status = "disabled"
                                       THEN [@ EXCEPT !.status = "pending"]
                                       ELSE [@ EXCEPT !.status = "error",
                                                      !.lastErrorMessage = "cron"]]
         /\ \A m \in Monitors : Unparseable(m) => Unparseable(m)'
     ]_vars

\* C18 happens: a tick is at the row again after an earlier tick stored the
\* status error and the parse error, with no check made and no next_run_at.
C18_Witness ==
  /\ AtUnparseable
  /\ LoadedRt.status = "error"
  /\ runtime[w.idx].status = "error" /\ runtime[w.idx].lastErrorMessage = "cron"
  /\ runtime[w.idx].checkCount = 0 /\ runtime[w.idx].nextRunAt = Nil
  /\ checksOf(w.idx) = {}

C20_ResponseSizeBoundary ==
  /\ [](w.pc = "read" /\ w.bodyLen <= w.maxResponseBodyBytes
          => ENABLED (ReadBody /\ w'.pc = "evaluate" /\ w'.payload = w.bodyLen))
  /\ [](w.pc = "evaluate" /\ w.payload = w.maxResponseBodyBytes /\ w.statusOk
           /\ ~(w.mon.expectedType = "text" /\ w.mon.selector)
          => ENABLED (EvaluateResponse /\ w'.result.success))
  /\ [][ /\ (w.pc = "read" /\ w'.pc = "evaluate")
              => w.bodyLen <= w.maxResponseBodyBytes /\ w'.payload = w.bodyLen
         /\ (w.pc = "read" /\ w.bodyLen > w.maxResponseBodyBytes)
              => /\ w'.pc = "returned"
                 /\ ~w'.result.success /\ w'.result.status = "error"
                 /\ w'.result.errorMessage
                      \in {SizeMessage(w.maxResponseBodyBytes), "http"}
                 /\ w'.result.sel = NoSel
                 /\ \A prev \in Values \cup {NoSel} :
                      buildSelectionDiff(prev, w'.result.sel) = NoDiff
         /\ (w'.pc = "returned" /\ w.pc # "returned"
               /\ \E n \in 0..(MaxBody + 1) : w'.result.errorMessage = SizeMessage(n))
              => /\ w.pc = "read" /\ w.bodyLen > w.maxResponseBodyBytes
                 /\ w'.result.errorMessage = SizeMessage(w.maxResponseBodyBytes)
     ]_vars

\* C20 happens: a body one byte longer than the limit was read and executeOnce
\* has returned the size-limit error.
C20_Witness ==
  /\ w.pc = "returned"
  /\ w.bodyLen = w.maxResponseBodyBytes + 1
  /\ w.payload = w.maxResponseBodyBytes + 1
  /\ w.result.errorMessage = SizeMessage(w.maxResponseBodyBytes)
  /\ ~w.result.success /\ w.result.sel = NoSel

\* The previous selection is the current one as it was stored.
SameAgain == w.current.Exists /\ w.previous = storedSelection(NilSnapshot, w.current)

\* C21: for every existing selection S, of any kind, the diff of no previous
\* selection and S is initial and unchanged, and the diff of S and S is
\* unchanged, also when the first S is S as it was stored and loaded again;
\* without a current selection there is no diff.  The diff a run builds is
\* that diff.
C21_DiffRoundTrip ==
  /\ \A err \in FloatErrors :
       /\ w.current.Exists =>
            /\ buildSelectionDiffOfKind(NilSnapshot, w.current, err).Kind = "initial"
            /\ ~buildSelectionDiffOfKind(NilSnapshot, w.current, err).Changed
            /\ buildSelectionDiffOfKind(w.current, w.current, err) # NilDiff
            /\ ~buildSelectionDiffOfKind(w.current, w.current, err).Changed
            /\ ~buildSelectionDiffOfKind(storedSelection(NilSnapshot, w.current),
                                         w.current, err).Changed
       /\ buildSelectionDiffOfKind(w.previous, NoSelection, err) = NilDiff
       /\ buildSelectionDiffOfKind(w.previous, NilSnapshot, err) = NilDiff
  /\ w.pc = "insert" =>
       /\ ~w.current.Exists => w.diff = NilDiff
       /\ w.current.Exists /\ ~w.previous.Exists
            => w.diff.Kind = "initial" /\ ~w.diff.Changed
       /\ SameAgain => w.diff.Kind \notin {"nil", "initial"} /\ ~w.diff.Changed

\* C21 happens: a run found the object its previous run had stored, and the
\* diff is an unchanged object diff.
C21_Witness ==
  /\ w.pc = "insert" /\ SameAgain
  /\ w.current.Raw.t = "object" /\ DOMAIN w.current.Raw.fields # {}
  /\ w.diff.Kind = "object" /\ ~w.diff.Changed

\* The kind of an existing selection, of the six kinds: by its type, and for
\* JSON by its value.
KindOf(snapshot) ==
  CASE snapshot.Type = "string" -> "text"
    [] snapshot.Type = "number" -> "number"
    [] snapshot.Type \in {"true", "false"} -> "boolean"
    [] snapshot.Type = "null" -> "null"
    [] snapshot.Type = "json" /\ snapshot.Value.t = "array" -> "array"
    [] snapshot.Type = "json" /\ snapshot.Value.t = "object" -> "object"

TypeChangedDiff ==
  [SelectionDiff("typeChanged", TRUE)
     EXCEPT !.details = {"oldType", "newType", "old", "new"}]

\* C22: when the previous and the current selection exist and are of different
\* kinds, the diff is typeChanged with changed = true and nothing of a
\* comparison by kind, also when the two values are the same text; selections
\* of one kind never give typeChanged.  The diff a run builds is that diff.
C22_TypeChanged ==
  w.previous.Exists /\ w.current.Exists =>
    /\ \A err \in FloatErrors :
         LET diff == buildSelectionDiffOfKind(w.previous, w.current, err) IN
         IF KindOf(w.previous) # KindOf(w.current)
           THEN diff = TypeChangedDiff
           ELSE diff.Kind \notin {"typeChanged", "initial", "nil"}
    /\ w.pc = "insert" =>
         (KindOf(w.previous) # KindOf(w.current) <=> w.diff = TypeChangedDiff)

\* C22 happens: the previous selection was the number 1, the current one is the
\* string 1, both with the value 1, and the diff is typeChanged.
C22_Witness ==
  /\ w.pc = "insert"
  /\ w.previous.Exists /\ w.previous.Type = "number"
  /\ w.current.Exists /\ w.current.Type = "string"
  /\ w.previous.Value = w.current.Value
  /\ w.diff.Kind = "typeChanged" /\ w.diff.Changed

\* An existing selection whose value is an array of primitives, and its
\* elements.
PrimitiveArray(snapshot) ==
  /\ snapshot.Exists /\ snapshot.Type = "json"
  /\ snapshot.Value.t = "array" /\ validJSON(snapshot.Value)
  /\ allPrimitives(snapshot.Value.items)

ItemsOf(snapshot) == Unmarshal(snapshot.Value).items

CountIn(value, items) == Cardinality({i \in 1..Len(items) : items[i] = value})

ValuesOf(items) == {items[i] : i \in 1..Len(items)}

\* counts holds, by encoding, exactly the values that occur more often in to
\* than in from, each with the difference.
ExactGain(counts, from, to) ==
  /\ \A value \in ValuesOf(from) \cup ValuesOf(to) :
       LET more == CountIn(value, to) - CountIn(value, from) IN
       IF more > 0
         THEN stableJSON(value) \in DOMAIN counts /\ counts[stableJSON(value)] = more
         ELSE stableJSON(value) \notin DOMAIN counts
  /\ \A key \in DOMAIN counts : \E value \in ValuesOf(to) : stableJSON(value) = key

SameMultiset(from, to) ==
  \A value \in ValuesOf(from) \cup ValuesOf(to) : CountIn(value, from) = CountIn(value, to)

\* C23: for two arrays of primitives, the diff is arrayReorder, changed, with
\* nothing added or removed when they hold the same elements as often in
\* another order; it is array, changed, with exactly the positive differences of
\* the counts as added and removed when they do not hold the same elements as
\* often; and it is array, unchanged, when they are the same.  The diff a run
\* builds is that diff.
C23_PrimitiveArrays ==
  PrimitiveArray(w.previous) /\ PrimitiveArray(w.current) =>
    LET from == ItemsOf(w.previous)
        to   == ItemsOf(w.current)
        diff == buildSelectionDiffOfKind(w.previous, w.current, 0)
    IN  /\ ExactGain(diff.addedCounts, from, to)
        /\ ExactGain(diff.removedCounts, to, from)
        /\ SameMultiset(from, to) /\ from # to
             => /\ diff.Kind = "arrayReorder" /\ diff.Changed /\ diff.reorderedOnly
                /\ DOMAIN diff.addedCounts = {} /\ DOMAIN diff.removedCounts = {}
        /\ ~SameMultiset(from, to)
             => /\ diff.Kind = "array" /\ diff.Changed /\ ~diff.reorderedOnly
                /\ DOMAIN diff.addedCounts \cup DOMAIN diff.removedCounts # {}
        /\ from = to => diff.Kind = "array" /\ ~diff.Changed
        /\ w.pc = "insert" => w.diff = diff

\* C23 happens: a run found the two different elements of the previous array
\* in the other order, and the diff is arrayReorder.
C23_Witness ==
  /\ w.pc = "insert"
  /\ PrimitiveArray(w.previous) /\ PrimitiveArray(w.current)
  /\ Len(ItemsOf(w.current)) = 2
  /\ ItemsOf(w.current)[1] # ItemsOf(w.current)[2]
  /\ ItemsOf(w.previous) = <<ItemsOf(w.current)[2], ItemsOf(w.current)[1]>>
  /\ w.diff.Kind = "arrayReorder" /\ w.diff.Changed
  /\ DOMAIN w.diff.addedCounts = {} /\ DOMAIN w.diff.removedCounts = {}

\* An existing selection whose value is an array of objects that all have an
\* id, a primitive that is not null, no two the same; and the encoded ids.
IdentifiedArray(snapshot) ==
  /\ snapshot.Exists /\ snapshot.Type = "json"
  /\ snapshot.Value.t = "array" /\ validJSON(snapshot.Value)
  /\ LET items == snapshot.Value.items IN
     /\ \A i \in 1..Len(items) :
          /\ items[i].t = "object" /\ candidates[1] \in DOMAIN items[i].fields
          /\ items[i].fields[candidates[1]].t \in {"number", "string", "bool"}
     /\ \A i, j \in 1..Len(items) :
          i # j => Unmarshal(items[i].fields[candidates[1]])
                     # Unmarshal(items[j].fields[candidates[1]])

IdOf(item) == stableJSON(item.fields[candidates[1]])

IdsOf(items) == {IdOf(items[i]) : i \in 1..Len(items)}

ItemWith(id, items) == items[CHOOSE i \in 1..Len(items) : IdOf(items[i]) = id]

Ascending(list) == \A i, j \in 1..Len(list) : i < j => stringLess(list[i], list[j])

\* C24: for two arrays of objects with unique ids the diff is arrayObject by
\* the key id; added, removed and updated are ascending lists of encoded ids:
\* the ids of the current array only, of the previous array only, and of both
\* arrays with different items; no id is in two lists, and changed holds iff a
\* list is not empty.  So one item added, one removed and one changed give one
\* id in each list.  The diff a run builds is that diff.
C24_KeyedObjectArrays ==
  /\ IdentifiedArray(w.previous) /\ IdentifiedArray(w.current)
     /\ Len(w.previous.Value.items) + Len(w.current.Value.items) > 0
     => LET from == ItemsOf(w.previous)
            to   == ItemsOf(w.current)
            diff == buildSelectionDiffOfKind(w.previous, w.current, 0)
        IN  /\ diff.Kind = "arrayObject" /\ diff.keyField = candidates[1]
            /\ ValuesOf(diff.added) = IdsOf(to) \ IdsOf(from)
            /\ ValuesOf(diff.removed) = IdsOf(from) \ IdsOf(to)
            /\ ValuesOf(diff.updated)
                 = {id \in IdsOf(from) \cap IdsOf(to) : ItemWith(id, from) # ItemWith(id, to)}
            /\ Ascending(diff.added) /\ Ascending(diff.removed) /\ Ascending(diff.updated)
            /\ diff.Changed <=> Len(diff.added) + Len(diff.removed) + Len(diff.updated) > 0
            /\ w.pc = "insert" => w.diff = diff
  /\ w.pc = "insert" /\ w.diff.Kind = "arrayObject"
     => /\ ValuesOf(w.diff.added) \cap ValuesOf(w.diff.removed) = {}
        /\ ValuesOf(w.diff.added) \cap ValuesOf(w.diff.updated) = {}
        /\ ValuesOf(w.diff.removed) \cap ValuesOf(w.diff.updated) = {}
        /\ Ascending(w.diff.added) /\ Ascending(w.diff.removed) /\ Ascending(w.diff.updated)
        /\ w.diff.Changed
             <=> Len(w.diff.added) + Len(w.diff.removed) + Len(w.diff.updated) > 0

\* C24 happens: of the two items of the previous array one is gone and one is
\* changed, the current array has a new one, and each list holds one id.
C24_Witness ==
  /\ w.pc = "insert"
  /\ IdentifiedArray(w.previous) /\ IdentifiedArray(w.current)
  /\ Len(ItemsOf(w.previous)) = 2 /\ Len(ItemsOf(w.current)) = 2
  /\ w.diff.Kind = "arrayObject" /\ w.diff.Changed
  /\ Len(w.diff.added) = 1 /\ Len(w.diff.removed) = 1 /\ Len(w.diff.updated) = 1
  /\ w.diff.added[1] \notin IdsOf(ItemsOf(w.previous))
  /\ w.diff.removed[1] \notin IdsOf(ItemsOf(w.current))
  /\ ItemWith(w.diff.updated[1], ItemsOf(w.previous))
       # ItemWith(w.diff.updated[1], ItemsOf(w.current))

\* An existing number selection whose value is a number in range.
NumberSelection(snapshot) ==
  /\ snapshot.Exists /\ snapshot.Type = "number"
  /\ snapshot.Value.t = "number" /\ inRange(snapshot.Value)

\* The digits after the point that a number is written with.
PlacesWritten(value) ==
  IF value.places - value.exp < 0 THEN 0 ELSE value.places - value.exp

\* The difference of two numbers, exactly.
Difference(previous, current) ==
  LET from   == ParseFloat(previous.Value)
      to     == ParseFloat(current.Value)
      places == IF from.places > to.places THEN from.places ELSE to.places
  IN  stripZeros(to.units * Pow10(places - to.places)
                   - from.units * Pow10(places - from.places), places)

\* C25: two number selections that stand for the same number, however many
\* zeros end them, give a number diff with changed = false and delta 0; two
\* that differ give changed = true and as delta their difference, exactly, with
\* no more digits after the point than the longer of the two is written with,
\* whatever the error of the float64 subtraction.  The diff a run builds is
\* one of these.
C25_NumberDelta ==
  NumberSelection(w.previous) /\ NumberSelection(w.current) =>
    /\ \A err \in FloatErrors :
         LET diff == buildSelectionDiffOfKind(w.previous, w.current, err) IN
         /\ diff.Kind = "number"
         /\ diff.delta = Difference(w.previous, w.current)
         /\ diff.delta.places <= PlacesWritten(w.previous.Value)
              \/ diff.delta.places <= PlacesWritten(w.current.Value)
         /\ diff.Changed <=> ParseFloat(w.previous.Value) # ParseFloat(w.current.Value)
         /\ ~diff.Changed => diff.delta.units = 0
    /\ w.pc = "insert" =>
         /\ w.diff.Kind = "number"
         /\ w.diff.delta = Difference(w.previous, w.current)
         /\ w.diff.Changed <=> ParseFloat(w.previous.Value) # ParseFloat(w.current.Value)

\* C25 happens: the previous number was 1.5, the current one is 4.1, and the
\* delta is 2.6.
C25_Witness ==
  /\ w.pc = "insert"
  /\ NumberSelection(w.previous) /\ NumberSelection(w.current)
  /\ w.previous.Value = JNumber(15, 1, 0) /\ w.current.Value = JNumber(41, 1, 0)
  /\ w.diff.Kind = "number" /\ w.diff.Changed
  /\ w.diff.delta = [units |-> 26, places |-> 1]

\* An existing selection whose value is an array of objects.
ObjectArray(snapshot) ==
  /\ snapshot.Exists /\ snapshot.Type = "json"
  /\ snapshot.Value.t = "array" /\ validJSON(snapshot.Value)
  /\ allObjects(snapshot.Value.items)

\* The key is in every item, with a value that is no object and no array, and
\* no two items have the same value of it.
PresentSimpleUnique(key, items) ==
  /\ \A i \in 1..Len(items) :
       key \in DOMAIN items[i].fields /\ items[i].fields[key].t \notin {"object", "array"}
  /\ \A i, j \in 1..Len(items) : i # j => items[i].fields[key] # items[j].fields[key]

NotNull(key, items) == \A i \in 1..Len(items) : items[i].fields[key].t # "null"

\* The diff of two arrays of objects is by the key of the first candidate of
\* usable, or by the equality of the arrays when there is none.
DiffByFirstOf(usable, diff, from, to) ==
  IF usable = {}
    THEN diff.Kind = "array" /\ (diff.Changed <=> from # to) /\ diff.keyField = <<>>
    ELSE /\ diff.Kind = "arrayObject"
         /\ \E i \in usable : diff.keyField = candidates[i] /\ \A j \in usable : i <= j

\* C26 as stated: the key is the first of id, key, name, slug, uuid that is
\* present in every element, not composite and unique on both sides.
C26_AsStated ==
  ObjectArray(w.previous) /\ ObjectArray(w.current)
    /\ Len(w.previous.Value.items) + Len(w.current.Value.items) > 0
    => LET from == ItemsOf(w.previous)
           to   == ItemsOf(w.current)
       IN  DiffByFirstOf({i \in 1..Len(candidates) :
                            /\ PresentSimpleUnique(candidates[i], from)
                            /\ PresentSimpleUnique(candidates[i], to)},
                         buildSelectionDiffOfKind(w.previous, w.current, 0), from, to)

\* C26: for two arrays of objects the identity key is the first of id, key,
\* name, slug, uuid that every element of both arrays has with a value that is
\* not null, no object and no array, and that no two elements of one array
\* have with the same value; the diff is arrayObject by that key, and when
\* there is no such candidate it is array, changed iff the arrays differ.  The
\* diff a run builds is that diff.
C26_IdentityKey ==
  ObjectArray(w.previous) /\ ObjectArray(w.current)
    /\ Len(w.previous.Value.items) + Len(w.current.Value.items) > 0
    => LET from == ItemsOf(w.previous)
           to   == ItemsOf(w.current)
           diff == buildSelectionDiffOfKind(w.previous, w.current, 0)
       IN  /\ DiffByFirstOf({i \in 1..Len(candidates) :
                               /\ PresentSimpleUnique(candidates[i], from)
                               /\ NotNull(candidates[i], from)
                               /\ PresentSimpleUnique(candidates[i], to)
                               /\ NotNull(candidates[i], to)},
                            diff, from, to)
           /\ w.pc = "insert" => w.diff = diff

\* C26 happens: every element of both arrays has an id and a key, an id is
\* null, and the diff is by key.
C26_Witness ==
  /\ w.pc = "insert"
  /\ ObjectArray(w.previous) /\ ObjectArray(w.current)
  /\ Len(ItemsOf(w.previous)) > 0 /\ Len(ItemsOf(w.current)) > 0
  /\ PresentSimpleUnique(candidates[1], ItemsOf(w.previous))
  /\ PresentSimpleUnique(candidates[1], ItemsOf(w.current))
  /\ ~NotNull(candidates[1], ItemsOf(w.current))
  /\ w.diff.Kind = "arrayObject" /\ w.diff.keyField = candidates[2]

\* An existing selection whose value is an object.
ObjectSelection(snapshot) ==
  /\ snapshot.Exists /\ snapshot.Type = "json"
  /\ snapshot.Value.t = "object" /\ validJSON(snapshot.Value)

\* C27: the diff of two objects has the kind object; a key of the current
\* object only is added, a key of the previous object only is removed, a key of
\* both with two objects is walked and is no change itself, a key of both with
\* other values that differ is changed; every path is in one of added, removed
\* and changed only, and once; the details hold the lists that are not empty;
\* and changed holds iff a list is not empty.
C27_ObjectDiff ==
  ObjectSelection(w.previous) /\ ObjectSelection(w.current) =>
    LET from == Unmarshal(w.previous.Value).fields
        to   == Unmarshal(w.current.Value).fields
        diff == buildSelectionDiffOfKind(w.previous, w.current, 0)
    IN  /\ diff.Kind = "object"
        /\ \A key \in DOMAIN to \ DOMAIN from : key \in ValuesOf(diff.added)
        /\ \A key \in DOMAIN from \ DOMAIN to : key \in ValuesOf(diff.removed)
        /\ \A key \in DOMAIN from \cap DOMAIN to :
             IF from[key].t = "object" /\ to[key].t = "object"
               THEN from[key] = to[key] => key \notin ValuesOf(diff.updated)
               ELSE from[key] # to[key] => key \in ValuesOf(diff.updated)
        /\ Ascending(diff.added) /\ Ascending(diff.removed) /\ Ascending(diff.updated)
        /\ ValuesOf(diff.added) \cap ValuesOf(diff.removed) = {}
        /\ ValuesOf(diff.added) \cap ValuesOf(diff.updated) = {}
        /\ ValuesOf(diff.removed) \cap ValuesOf(diff.updated) = {}
        /\ "added" \in diff.details <=> Len(diff.added) > 0
        /\ "removed" \in diff.details <=> Len(diff.removed) > 0
        /\ "changed" \in diff.details <=> Len(diff.updated) > 0
        /\ diff.Changed <=> Len(diff.added) + Len(diff.removed) + Len(diff.updated) > 0
        /\ w.pc = "insert" => w.diff = diff


\* ------------------------------------------------ the selector payload cache

\* The step is a lookup, the step is the locked part of a store by caller c.
LoadStep == w' # w /\ w'.calls = w.calls /\ w'.last.op = "load"
LockedStoreBy(c) ==
  w'.calls = SubSeq(w.calls, 1, c - 1) \o SubSeq(w.calls, c + 1, Len(w.calls))

\* The entries of the cache that have not expired at the time of the step.
LiveKeys == {key \in DOMAIN w.selectorPayloads : w.selectorPayloads[key].expiresAt > clock}

\* C28: a store that returns a token has put the bytes it was given under that
\* token, the bytes under a token do not change while the entry stays, and a
\* lookup returns them exactly when the entry is there and its expiry is after
\* the current time; a lookup of an entry whose expiry is not after the current
\* time misses and removes the entry; an empty or over-limit payload is refused
\* with the empty token, the cache untouched, and never gets into the cache.
C28_StoreThenLoad ==
  [][LET cache == w.selectorPayloads
         after == w'.selectorPayloads
         token == w'.last.token
         sized(payload) == Len(payload) >= 1 /\ Len(payload) <= w.maxSelectorPayloadBytes
     IN /\ \A c \in DOMAIN w.calls :
             LockedStoreBy(c) /\ token # 0
               => /\ w'.last.op = "store" /\ w'.last.ok
                  /\ token \in DOMAIN after
                  /\ after[token].payload = w.calls[c].payload
                  /\ after[token].expiresAt = w.calls[c].expiresAt
        /\ \A key \in DOMAIN cache \cap DOMAIN after :
             after[key] # cache[key]
               => \E c \in DOMAIN w.calls : LockedStoreBy(c) /\ token = key
        /\ LoadStep
             => /\ w'.last.ok <=> token \in LiveKeys
                /\ w'.last.ok => w'.last.payload = cache[token].payload /\ after = cache
                /\ token \in DOMAIN cache \ LiveKeys => token \notin DOMAIN after
                /\ \A key \in DOMAIN cache \ {token} :
                     key \in DOMAIN after /\ after[key] = cache[key]
        /\ w'.calls = w.calls /\ w'.last.op = "store" /\ w' # w
             => /\ ~sized(w'.last.payload)
                /\ token = 0 /\ ~w'.last.ok
                /\ after = cache
        /\ \A c \in DOMAIN w'.calls : sized(w'.calls[c].payload)
        /\ \A key \in DOMAIN after : sized(after[key].payload)
    ]_vars

\* A lookup has returned the bytes stored under its token while the cache
\* holds other bytes under another token.
C28_Witness ==
  /\ w.pc = "idle" /\ "selectorPayloads" \in DOMAIN w
  /\ w.last.op = "load" /\ w.last.ok /\ w.last.payload = <<"y">>
  /\ \E key \in DOMAIN w.selectorPayloads :
       key # w.last.token /\ w.selectorPayloads[key].payload = <<"x">>

\* C29: the cache never holds more than selectorPayloadCacheSize entries; a
\* store that finds the cache full after the purge of the expired entries
\* removes one live entry, one whose expiry no other live entry precedes, and
\* a store that does not find it full removes no live entry.
C29_Capacity ==
  [][LET cache == w.selectorPayloads
         after == w'.selectorPayloads
         kept(keys) == \A key \in keys : key \in DOMAIN after /\ after[key] = cache[key]
     IN /\ Cardinality(DOMAIN cache) <= selectorPayloadCacheSize
        /\ Cardinality(DOMAIN after) <= selectorPayloadCacheSize
        /\ \A c \in DOMAIN w.calls :
             LockedStoreBy(c)
               => IF Cardinality(LiveKeys) >= selectorPayloadCacheSize
                    THEN \E oldestKey \in LiveKeys :
                           /\ \A key \in LiveKeys :
                                cache[oldestKey].expiresAt <= cache[key].expiresAt
                           /\ kept(LiveKeys \ {oldestKey})
                           /\ DOMAIN after \subseteq (LiveKeys \ {oldestKey}) \cup {w'.last.token}
                    ELSE /\ kept(LiveKeys)
                         /\ DOMAIN after \subseteq LiveKeys \cup {w'.last.token}
    ]_vars

\* A store has evicted an entry of a full cache of live entries, and stored
\* its payload: the cache is full again, and what it holds expires later.
C29_Witness ==
  /\ w.pc = "idle" /\ "selectorPayloads" \in DOMAIN w
  /\ w.last.op = "store" /\ w.last.ok /\ w.last.oldestKey # 0
  /\ Cardinality(DOMAIN w.selectorPayloads) = selectorPayloadCacheSize
  /\ \E key \in DOMAIN w.selectorPayloads :
       w.selectorPayloads[key].expiresAt < w.selectorPayloads[w.last.token].expiresAt

\* ------------------------------------------------------ the runtime settings

\* The step stores another timezone: the realignment ran and was committed.
Realigned == config'.timezone # config.timezone

\* t is the cron successor of now in the location: the first time after now
\* that the schedule activates on, read as local time.
Successor(t, expr, now, location) ==
  /\ t > now /\ (t + location) % expr = 0
  /\ \A earlier \in (now + 1)..(t - 1) : (earlier + location) % expr # 0

\* C30: when the timezone changes, the runtime of every enabled target has the
\* cron successor of now in the new timezone as next_run_at (a runtime that
\* was missing exists, pending), and the runtime of every disabled target is
\* what it was, its next_run_at null.
C30_Realign ==
  [][Realigned
       => \A m \in Monitors :
            IF monitors[m].enabled
              THEN /\ runtime'[m].exists
                   /\ Successor(runtime'[m].nextRunAt, monitors[m].cron, clock,
                                config'.timezone)
                   /\ ~runtime[m].exists => runtime'[m].status = "pending"
                   /\ runtime'[m].checkCount = runtime[m].checkCount
              ELSE /\ runtime'[m] = runtime[m]
                   /\ runtime'[m].nextRunAt = Nil
    ]_vars

\* The timezone is an hour ahead of UTC and the runtime of an enabled target
\* with a schedule of every second hour is due on an odd hour, while the
\* runtime of a disabled target is disabled without next_run_at.
C30_Witness ==
  /\ "timezone" \in DOMAIN config /\ config.timezone = 1
  /\ \E m \in Monitors :
       /\ monitors[m].enabled /\ monitors[m].cron = 2
       /\ runtime[m].exists /\ runtime[m].nextRunAt > clock /\ runtime[m].nextRunAt % 2 = 1
  /\ \E m \in Monitors :
       /\ monitors[m].exists /\ ~monitors[m].enabled
       /\ runtime[m].exists /\ runtime[m].status = "disabled" /\ runtime[m].nextRunAt = Nil

\* ----------------------------------------------------------- the retry loop

\* C32 as stated: every return of executeWithRetry gives the result of the
\* last attempt and a retriesUsed of the attempts made less one.
C32_AsStated ==
  [][(w.pc \in {"attempt", "backoff"} /\ w'.pc \in {"prev", "cancelled"})
       => LET attempts == w.attempt + 1
              last     == IF w.pc = "attempt" THEN w'.result ELSE w.result
          IN /\ attempts <= 1 + maxRetries
             /\ w'.result = last
             /\ w'.retriesUsed = attempts - 1
    ]_vars

\* C32: a run makes at most 1 + maxRetries attempts, each after a failed one;
\* an attempt that succeeds, or the attempt number 1 + maxRetries, returns its
\* result with retriesUsed the attempts made less one, and runMonitor stores
\* that result. A worker that is stopped while it waits for the next attempt
\* returns the result of the last attempt marked as failed with the message
\* "worker stopped", with retriesUsed the attempts made.
C32_BoundedRetry ==
  [][LET attempts == w.attempt + 1 IN
     /\ (w.pc = "attempt" /\ w'.pc \in {"prev", "backoff"})
          => /\ attempts <= 1 + maxRetries
             /\ w.retriesUsed = attempts - 1
             /\ w'.attempt = w.attempt
             /\ w'.result.checkedAt = clock
             /\ w'.pc = "prev" <=> (w'.result.success \/ attempts = 1 + maxRetries)
             /\ w'.pc = "prev" => w'.retriesUsed = attempts - 1
             /\ w'.pc = "backoff" => w'.retriesUsed = attempts
     /\ (w.pc = "backoff" /\ w'.pc = "attempt")
          => ~w.result.success /\ w'.attempt = w.attempt + 1 /\ w'.attempt <= maxRetries
     /\ (w.pc = "backoff" /\ w'.pc = "cancelled")
          => /\ w'.retriesUsed = attempts
             /\ ~w'.result.success /\ w'.result.status = "error"
             /\ w'.result.errorMessage = "worker stopped"
             /\ w'.result.sel = w.result.sel /\ w'.result.checkedAt = w.result.checkedAt
     /\ (w.pc \in {"prev", "insert", "update"} /\ w'.pc \in {"insert", "update", "notify", "prune"})
          => w'.result = w.result /\ w'.retriesUsed = w.retriesUsed
     /\ (w.pc = "insert" /\ checks' # checks)
          => \E r \in checks' \ checks : r.checkedAt = w.result.checkedAt /\ r.sel = w.result.sel
     /\ (w.pc = "update" /\ runtime' # runtime)
          => runtime'[w.idx].retryCount = runtime[w.idx].retryCount + w.retriesUsed
    ]_vars

\* C32 happens: a run has returned from its second attempt, a success, with one
\* retry used.
C32_Witness ==
  /\ w.pc = "prev" /\ w.attempt = 1 /\ w.retriesUsed = 1 /\ w.result.success

\* A run of the monitor m is in flight and has not saved its runtime update.
InFlight(m) == BeforeSave /\ w.idx = m

\* C33 as stated: a runtime has the status retrying only while a run of its
\* target is in flight.
C33_AsStated ==
  \A m \in Monitors : runtime[m].status = "retrying" => InLoop /\ w.idx = m

\* C33: only a failed attempt that will be retried writes the status retrying,
\* into the runtime of its target and nothing else with it (the write may
\* fail, its error is dropped); the runtime update of the run replaces it by
\* ok, error or disabled, so from that update to the return of runMonitor the
\* status is not retrying. A run that ends before its update, with an error or
\* with the process, leaves the status retrying behind.
C33_RetryingInFlight ==
  [][/\ \A m \in Monitors :
          (runtime'[m].status = "retrying" /\ runtime[m].status # "retrying")
            => /\ w.pc = "attempt" /\ w'.pc = "backoff" /\ w.idx = m
               /\ ~w'.result.success /\ w.attempt < maxRetries
               /\ runtime'[m] = [runtime[m] EXCEPT !.status = "retrying"]
     /\ (w.pc = "attempt" /\ w'.pc = "backoff")
          => \/ runtime' = runtime
             \/ runtime'[w.idx].status = "retrying"
     /\ (w.pc = "update" /\ runtime' # runtime)
          => runtime'[w.idx].status \in {"ok", "error", "disabled"}
     /\ (AfterSave /\ w' # w)
          => runtime[w.idx].status \in {"ok", "error", "disabled"}
    ]_vars

\* C33 happens: between two attempts of a run the runtime of its target has
\* the status retrying.
C33_Witness ==
  /\ w.pc = "backoff" /\ runtime[w.idx].status = "retrying"

\* ------------------------------------------------------ the stored selection

\* The check results of the monitor m hold a selection.
HasSelection(rows, m) == \E r \in rows : r.monitor = m /\ r.sel # NoSel

\* C34: once the check results of a target hold a selection they hold one ever
\* after, and a check result with a selection that is stored then is diffed
\* against the most recent of them: its diff kind is not initial.
C34_NeverInitialAgain ==
  [][\A m \in Monitors :
       HasSelection(checks, m)
         => /\ HasSelection(checks', m)
            /\ \A r \in checks' \ checks :
                 r.monitor = m /\ r.sel # NoSel
                   => /\ r.diffKind # "initial"
                      /\ r.diffChanged = (r.sel # loadPreviousSelection(m))
    ]_vars

\* ------------------------------------------------------------- the counters

\* C35: in every runtime check_count is success_count plus error_count, one of
\* consecutive_successes and consecutive_errors is zero, and neither streak is
\* longer than the count of its outcome.
C35_Counters ==
  \A m \in Monitors :
    LET rt == runtime[m] IN
    /\ rt.checkCount = rt.successCount + rt.errorCount
    /\ rt.consecutiveSuccesses = 0 \/ rt.consecutiveErrors = 0
    /\ rt.consecutiveSuccesses <= rt.successCount
    /\ rt.consecutiveErrors <= rt.errorCount
    /\ rt.successCount >= 0 /\ rt.errorCount >= 0
    /\ rt.consecutiveSuccesses >= 0 /\ rt.consecutiveErrors >= 0

\* C35 happens: a run has succeeded after a failed one, and the runtime counts
\* two checks, one of each outcome, and a streak of one success.
C35_Witness ==
  /\ AfterSave /\ w.result.success
  /\ runtime[w.idx].checkCount = 2
  /\ runtime[w.idx].successCount = 1 /\ runtime[w.idx].errorCount = 1
  /\ runtime[w.idx].consecutiveSuccesses = 1 /\ runtime[w.idx].consecutiveErrors = 0

\* ------------------------------------------------------------- one row per run

\* The check count of every monitor is the same before and after the step.
SameCheckCounts == \A m \in Monitors : runtime'[m].checkCount = runtime[m].checkCount

\* C36: a run appends its one check result in the one step between the last
\* attempt and the runtime update, and that update adds exactly one to
\* check_count; the attempts and their backoffs, retried or not, append
\* nothing and count nothing, and nothing after the update appends or counts.
C36_OneRowPerRun ==
  [][/\ w.pc \in {"row", "attempt", "backoff", "prev"}
          => checks' = checks /\ SameCheckCounts
     /\ (w.pc = "insert" /\ w'.pc = "update")
          => /\ \E r \in checks' \ checks :
                  /\ checks' = checks \cup {r}
                  /\ r.monitor = w.idx /\ r.id = w'.checkId
                  /\ r.checkedAt = w.now
             /\ SameCheckCounts
     /\ (w.pc = "insert" /\ w'.pc # "update") => checks' = checks /\ SameCheckCounts
     /\ (w.pc = "update" /\ w'.pc \in {"notify", "prune"})
          => /\ checks' = checks
             /\ runtime'[w.idx].checkCount = runtime[w.idx].checkCount + 1
             /\ \A m \in Monitors \ {w.idx} :
                  runtime'[m].checkCount = runtime[m].checkCount
     /\ (w.pc = "update" /\ w'.pc \notin {"notify", "prune"})
          => checks' = checks /\ SameCheckCounts
     /\ AfterSave
          => /\ SameCheckCounts
             /\ checks' \subseteq checks
             /\ \E r \in checks' : r.id = w.checkId /\ r.monitor = w.idx
     /\ w'.pc = "update" => w.pc = "insert"
     /\ w'.pc = "insert" => w.pc = "prev"
     /\ (w'.pc \in {"notify", "send", "prune"} /\ ~AfterSave) => w.pc = "update"
    ]_vars

\* C36 happens: a run whose first attempt failed and was retried has saved
\* its runtime, and the monitor has one check result and a check count of one.
C36_Witness ==
  /\ AfterSave
  /\ w.attempt = 1 /\ w.retriesUsed = 1
  /\ runtime[w.idx].checkCount = 1
  /\ Cardinality({r \in checks : r.monitor = w.idx}) = 1

\* ------------------------------------------------- no false alarm through storage

\* The previous selection of the run is the selection the check before it
\* stored when it extracted the type and the value of the current one.
SameValueBefore ==
  /\ w.pc = "insert"
  /\ w.current.Exists
  /\ w.previous = Snapshot(w.current.Type, EmptyText, w.current.Value)

\* The selections of the run's endpoint with the type and the value of the
\* current one, whatever their raw text.
SameValued ==
  {s \in Selections(w.endpoint) :
     s.Exists /\ s.Type = w.current.Type /\ s.Value = w.current.Value}

\* C37: when the check before extracted the same type and value, the diff of
\* the run, built against the stored selection without its raw text, is
\* unchanged and of the kind that the comparison with the selection as it was
\* extracted gives, which is no typeChanged.
C37_NoFalseAlarm ==
  SameValueBefore =>
    /\ ~w.diff.Changed
    /\ w.diff.Kind \notin {"nil", "initial", "typeChanged"}
    /\ selectionKind(w.previous) = selectionKind(w.current)
    /\ \A direct \in SameValued : \A err \in FloatErrors :
         /\ selectionKind(direct) = selectionKind(w.previous)
         /\ buildSelectionDiffOfKind(direct, w.current, err).Kind = w.diff.Kind
         /\ ~buildSelectionDiffOfKind(direct, w.current, err).Changed

\* C37 happens: the run found an array written otherwise than its stored,
\* normalized value, and its diff is an unchanged array diff.
C37_Witness ==
  /\ SameValueBefore
  /\ w.current.Type = "json" /\ w.current.Raw # w.current.Value
  /\ w.diff.Kind = "array" /\ ~w.diff.Changed

\* ------------------------------------------------------- disabling a monitor

\* C39: while a monitor is disabled and its runtime is as the update that
\* disabled it left it (status disabled: not triggered, not enabled again),
\* the worker starts no check of it, also in a tick that loaded its rows
\* before the update.
C39_DisableImmediate ==
  [][(w.pc = "row" /\ w'.pc = "attempt")
       => ~(/\ monitors[w.idx].exists
            /\ ~monitors[w.idx].enabled
            /\ runtime[w.idx].exists
            /\ runtime[w.idx].status = "disabled"
            /\ runtime[w.idx].nextRunAt = Nil)
    ]_vars

\* ------------------------------------------------------- one runtime per monitor

\* C40: the create request that has inserted its monitor and ensured the
\* configuration inserts the runtime and answers 201, and the monitor has its
\* runtime, also when the worker has created the runtime between the two
\* inserts of the request.
C40_CreateSucceeds ==
  [][(api.op = "create" /\ api.pc = "runtime" /\ api'.pc = "done")
       => /\ api'.status = 201
          /\ runtime'[api.m].exists
    ]_vars

\* ------------------------------------------------------- deleting a monitor

\* No runtime, check result or notification event refers to the monitor m.
NoCompanions(m) ==
  /\ ~runtime[m].exists
  /\ \A r \in checks : r.monitor # m
  /\ \A e \in events : e.monitor # m

\* C31: from the answer 204 of a delete request on, the monitor is gone and no
\* runtime, check result or notification event refers to it, whatever the
\* worker does with the rows it had loaded and the run it had started; no
\* row refers to a monitor that does not exist.
C31_DeleteCompanions ==
  /\ (api.op = "delete" /\ api.status = 204)
       => ~monitors[api.m].exists /\ NoCompanions(api.m)
  /\ \A m \in Monitors : ~monitors[m].exists => NoCompanions(m)

\* C31 happens: the delete has answered 204 while the run of the monitor is
\* about to insert its check result.
C31_Witness ==
  /\ api.op = "delete" /\ api.status = 204
  /\ w.pc = "insert" /\ w.idx = api.m

\* ------------------------------------------------------- a trigger is not lost

\* The trigger request of the monitor m has answered 200 after the run in
\* flight stored its check result: the run started before the answer.
TriggeredDuringRun(m) ==
  /\ api.op = "trigger" /\ api.status = 200 /\ api.m = m
  /\ w.pc = "update" /\ w.idx = m
  /\ w.checkId < api.at

\* C38: a trigger that has answered 200 is served by a check that starts
\* after the answer, so the runtime update of a run that started before the
\* answer leaves the monitor due: it keeps a next_run_at, and a disabled
\* monitor stays pending.
C38_TriggerServed ==
  [][\A m \in Monitors :
       (TriggeredDuringRun(m) /\ runtime'[m] # runtime[m])
         => /\ runtime'[m].nextRunAt # Nil
            /\ ~monitors[m].enabled => runtime'[m].status = "pending"
    ]_vars
====
